---------------------------- MODULE Spec2Model ----------------------------
(***************************************************************************)
(* FRI-Binius polynomial commitment scheme (prover.rs, verifier.rs and    *)
(* utils/): commit, prove and verify as a state machine.                   *)
(*                                                                         *)
(* Scale.  The source works over the binary tower field of level TAU = 7   *)
(* (BinaryField128b, 2^TAU = 128 bits) and draws 144 FRI queries.  The     *)
(* model is the same construction at a tower level TLC can enumerate: the  *)
(* field is the tower of level TAU (2^(2^TAU) elements), the committed     *)
(* polynomial is packed in the tower of level TAU - 1 (BinaryField64b in   *)
(* tests.rs is level 6 = 7 - 1), and the query count NUM_QUERIES keeps its *)
(* role as both the sampling count and the small-domain threshold.  TAU,   *)
(* NUM_QUERIES and MaxRounds are the scale parameters of the model.        *)
(*                                                                         *)
(* Vectors of the source (Vec<T>, slices) are functions on 0..n-1 so that  *)
(* every index of the model is the index of the source.                    *)
(***************************************************************************)
EXTENDS Integers, Sequences, FiniteSets, TLC

\* ----------------------------------------------------------------- scale
\* Tower level of the challenge field (utils/mod.rs:7 sets 7).
TAU == 2
\* Number of FRI queries and small-domain threshold (channel.rs:91,95 use 144).
NUM_QUERIES == 12
\* Largest number of sum-check / FRI rounds (eval_point.len() - TAU) explored.
MaxRounds == 2

\* Width of usize (64 in the source): round_idx counts squeezes modulo
\* 2^UsizeBits, and a run of the model squeezes fewer times than that.
UsizeBits == 5

UsizeMax == 2 ^ UsizeBits - 1

\* Width of i32 (32 in the source), the type of the literal 1 in
\* (1 << log_max_len) < 144 of gen_queries; NUM_QUERIES < 2^(I32Bits - 1) as
\* 144 < 2^31.
I32Bits == 2 ^ 3

\* utils/code.rs:8-9
RATE == 4
LOG_RATE == 2

\* ------------------------------------------------------------ vectors
Pow2(n) == 2 ^ n

VLen(v) == Cardinality(DOMAIN v)

Empty == << >>

\* The vector <<Op(0), ..., Op(n-1)>>, indexed from 0, with every entry
\* computed once when the vector is built
Vec(n, Op(_)) == [i \in 0 .. (n - 1) |-> Op(i)] @@ Empty

VecOfSeq(s) == Vec(Len(s), LAMBDA i : s[i + 1])

\* Vec::push
Push(v, x) == v @@ (VLen(v) :> x)

\* usize::trailing_zeros of a power of two
RECURSIVE Log2(_)
Log2(n) == IF n <= 1 THEN 0 ELSE 1 + Log2(n \div 2)

Bit(a, i) == (a \div Pow2(i)) % 2

\* usize::trailing_zeros: the number of low zero bits, 64 for 0
RECURSIVE trailing_zeros(_)
trailing_zeros(n) ==
    IF n = 0 THEN 64 ELSE IF n % 2 = 1 THEN 0 ELSE 1 + trailing_zeros(n \div 2)

\* ------------------------------------------------- binary tower field
\* binius_field: an element of the tower of level k is the integer whose
\* low 2^(k-1) bits are the coefficient of 1 and whose high 2^(k-1) bits are
\* the coefficient of X_(k-1); X_(k-1)^2 = X_(k-1) * X_(k-2) + 1, X_(-1) = 1.
FieldBits == Pow2(TAU)

FieldSize == Pow2(FieldBits)

Field == 0 .. (FieldSize - 1)

RECURSIVE XorNat(_, _)
XorNat(a, b) ==
    IF a = 0 THEN b
    ELSE IF b = 0 THEN a
    ELSE ((a + b) % 2) + 2 * XorNat(a \div 2, b \div 2)

RECURSIVE TowerMul(_, _, _)
TowerMul(k, a, b) ==
    IF k = 0 THEN a * b
    ELSE LET h     == Pow2(Pow2(k - 1))
             a0    == a % h
             a1    == a \div h
             b0    == b % h
             b1    == b \div h
             alpha == IF k = 1 THEN 1 ELSE Pow2(Pow2(k - 2))
             z0    == TowerMul(k - 1, a0, b0)
             z2    == TowerMul(k - 1, a1, b1)
             z1    == XorNat(TowerMul(k - 1, a0, b1), TowerMul(k - 1, a1, b0))
         IN  XorNat(z0, z2) + h * XorNat(z1, TowerMul(k - 1, z2, alpha))

AddTable == Vec(FieldSize, LAMBDA a : Vec(FieldSize, LAMBDA b : XorNat(a, b)))

MulTable == Vec(FieldSize, LAMBDA a : Vec(FieldSize, LAMBDA b : TowerMul(TAU, a, b)))

\* Field addition; subtraction is the same operation in characteristic 2.
FAdd(a, b) == AddTable[a][b]

FMul(a, b) == MulTable[a][b]

InvTable ==
    Vec(FieldSize, LAMBDA a : IF a = 0 THEN 0 ELSE CHOOSE b \in Field : MulTable[a][b] = 1)

FInv(a) == InvTable[a]

\* Iterator::sum over field elements v[0..n-1]
RECURSIVE FSumTo(_, _)
FSumTo(v, n) == IF n = 0 THEN 0 ELSE FAdd(FSumTo(v, n - 1), v[n - 1])

FSum(v) == FSumTo(v, VLen(v))

\* ExtensionField<BinaryField1b>::iter_bases(x).nth(i): bit i of x
iter_bases(x, i) == Bit(x, i)

\* BinaryField128b::from_bases over BinaryField1b: bits[i] is bit i
from_bases_bits(bits) ==
    LET RECURSIVE Go(_)
        Go(n) == IF n = 0 THEN 0 ELSE Go(n - 1) + bits[n - 1] * Pow2(n - 1)
    IN  Go(VLen(bits))

\* Tower level and bit width of the packed coefficient field F.
PackLevel == TAU - 1

PackBits == Pow2(PackLevel)

PackSize == Pow2(PackBits)

\* <BinaryField128b as ExtensionField<F>>::DEGREE
Degree == FieldBits \div PackBits

\* BinaryField128b::from_bases over F: base element j fills bits
\* [j * PackBits, (j+1) * PackBits).
RECURSIVE from_bases_chunk(_, _, _)
from_bases_chunk(coeffs, start, n) ==
    IF n = 0 THEN 0
    ELSE from_bases_chunk(coeffs, start, n - 1)
         + coeffs[start + n - 1] * Pow2((n - 1) * PackBits)

\* ----------------------------------------------------- additive NTT
\* binius_ntt: the domain is spanned by the canonical basis beta_i = 2^i, so
\* the domain point of index j is the field element j.  W_0(x) = x,
\* W_(i+1)(x) = W_i(x) * (W_i(x) + W_i(beta_i)), and the twiddles are the
\* normalised values W_i(x) / W_i(beta_i).
\* tests.rs:30-33 builds the NTT for log domain l + LOG_RATE with l = rounds + 1;
\* the tower of level TAU has no subspace of dimension above FieldBits.
NttLogDomain ==
    IF MaxRounds + 1 + LOG_RATE < FieldBits THEN MaxRounds + 1 + LOG_RATE
    ELSE FieldBits

RECURSIVE SubspacePoly(_, _)
SubspacePoly(i, x) ==
    IF i = 0 THEN x
    ELSE LET w == SubspacePoly(i - 1, x)
             c == SubspacePoly(i - 1, Pow2(i - 1))
         IN  FMul(w, FAdd(w, c))

NormSubspacePoly(i, x) == FMul(SubspacePoly(i, x), FInv(SubspacePoly(i, Pow2(i))))

s_evals ==
    Vec(NttLogDomain,
        LAMBDA i : Vec(Pow2(NttLogDomain - 1 - i),
                       LAMBDA j : NormSubspacePoly(i, j * Pow2(i + 1))))

get_subspace_eval(round, idx) == s_evals[round][idx]

\* forward_transform_ext(data, coset): layer i pairs the entries at distance
\* 2^i of block j with the twiddle of the coset's block.
RECURSIVE NttLayers(_, _, _, _)
NttLayers(data, coset, logn, i) ==
    IF i < 0 THEN data
    ELSE LET tw(p) == get_subspace_eval(i, coset * Pow2(logn - 1 - i)
                                           + (p \div Pow2(i + 1)))
             lo(p) == FAdd(data[p], FMul(data[p + Pow2(i)], tw(p)))
             next  == Vec(VLen(data),
                          LAMBDA p : IF Bit(p, i) = 0 THEN lo(p)
                                     ELSE FAdd(data[p], lo(p - Pow2(i))))
         IN  NttLayers(next, coset, logn, i - 1)

forward_transform_ext(data, coset) ==
    NttLayers(data, coset, Log2(VLen(data)), Log2(VLen(data)) - 1)

\* ---------------------------------------------------------------- Code
\* Code::repack_message (code.rs:17-28)
repack_message(message) ==
    Vec(VLen(message) \div Degree,
        LAMBDA j : from_bases_chunk(message, j * Degree, Degree))

\* Code::encode_with_transform (code.rs:30-51) with the transform of new_ext
encode_with_transform(message) ==
    LET repacked == repack_message(message)
        n        == VLen(repacked)
        parts    == Vec(RATE, LAMBDA c : forward_transform_ext(repacked, c))
    IN  Vec(n * RATE, LAMBDA p : parts[p \div n][p % n])

\* Code::new_ext (code.rs:64-74)
new_ext(message) == encode_with_transform(message)

\* Code::new (code.rs:53-62) for a message of BinaryField128b elements:
\* repack_message takes chunks of DEGREE = 1 and leaves the message as it is
Code_new(message) ==
    LET n     == VLen(message)
        parts == Vec(RATE, LAMBDA c : forward_transform_ext(message, c))
    IN  Vec(n * RATE, LAMBDA p : parts[p \div n][p % n])

\* fold without the butterfly of the inverse transform: x0 is left as val0
fold_NoTwiddle(r, round, idx, val0, val1) ==
    LET x1 == FAdd(val1, val0)
        x0 == val0
    IN  FAdd(x0, FMul(r, FAdd(x0, x1)))

\* fold (code.rs:102-123)
fold(r, round, idx, val0, val1) ==
    LET twiddle == get_subspace_eval(round, idx)
        x1      == FAdd(val1, val0)
        x0      == FAdd(val0, FMul(x1, twiddle))
    IN  FAdd(x0, FMul(r, FAdd(x0, x1)))

\* fold_code pairing entry i with entry i + len/2 instead of its neighbour
fold_code_HalfSplit(encoding, r, round) ==
    Vec(VLen(encoding) \div 2,
        LAMBDA i : fold(r, round, i, encoding[i], encoding[i + VLen(encoding) \div 2]))

\* Code::fold_code (code.rs:76-94)
fold_code(encoding, r, round) ==
    Vec(VLen(encoding) \div 2,
        LAMBDA i : fold(r, round, i, encoding[2 * i], encoding[2 * i + 1]))

\* ----------------------------------------------------- equality tables
\* compute_eq (mle.rs:266-287): table after the first k coordinates of r
RECURSIVE compute_eq_upto(_, _)
compute_eq_upto(r, k) ==
    IF k = 0 THEN 0 :> 1
    ELSE LET prev == compute_eq_upto(r, k - 1)
             size == Pow2(k - 1)
             y(i) == FMul(prev[i], r[k - 1])
         IN  Vec(2 * size,
                 LAMBDA i : IF i < size THEN FAdd(prev[i], y(i)) ELSE y(i - size))

compute_eq(r) == compute_eq_upto(r, VLen(r))

\* --------------------------------------------------------------- bytes
\* to_le_bytes of an n-byte integer, as a sequence of bytes
RECURSIVE LEBytes(_, _)
LEBytes(x, n) == IF n = 0 THEN << >> ELSE <<x % 256>> \o LEBytes(x \div 256, n - 1)

\* usize::to_le_bytes (8 bytes on the 64-bit targets of the crate)
UsizeBytes(x) == LEBytes(x, 64 \div 8)

\* serialize_canonical / val().to_le_bytes() of a field element: the
\* little-endian bytes of its FieldBits bits
FieldBytes(x) == LEBytes(x, (FieldBits + 7) \div 8)

\* -------------------------------------------------------------- Keccak
\* Keccak256 is an external primitive; the model's sponge keeps a running
\* digest among HashMod values, updated byte by byte, read back as two bytes.
HashMod == Pow2(15) - 19

\* Keccak256::new
Keccak_new == Pow2(3) - 1

\* Keccak256::update: the sponge after absorbing the first n bytes
RECURSIVE Keccak_update_upto(_, _, _)
Keccak_update_upto(h, bytes, n) ==
    IF n = 0 THEN h
    ELSE (Keccak_update_upto(h, bytes, n - 1) * 263 + bytes[n] + 1) % HashMod

Keccak_update(h, bytes) == Keccak_update_upto(h, bytes, Len(bytes))

\* Keccak256::finalize
Keccak_finalize(h) == h

Keccak256(bytes) == Keccak_finalize(Keccak_update(Keccak_new, bytes))

HashBytes(h) == LEBytes(h, 2)

\* hash_tuple (merkle.rs:65-70)
hash_tuple(data) == Keccak256(FieldBytes(data[1]) \o FieldBytes(data[2]))

\* hash_concatenation (merkle.rs:72-80)
hash_concatenation(data1, data2) == Keccak256(HashBytes(data1) \o HashBytes(data2))

\* -------------------------------------------------------------- Merkle
\* compute_leaf_hashes (merkle.rs:160-176)
compute_leaf_hashes(vals) ==
    Vec(VLen(vals) \div 2, LAMBDA k : hash_tuple(<<vals[2 * k], vals[2 * k + 1]>>))

\* build_parent_layer hashing the right child before the left
build_parent_layer_Swapped(child_layer) ==
    Vec(VLen(child_layer) \div 2,
        LAMBDA k : hash_concatenation(child_layer[2 * k + 1], child_layer[2 * k]))

\* build_parent_layer (merkle.rs:178-188)
build_parent_layer(child_layer) ==
    Vec(VLen(child_layer) \div 2,
        LAMBDA k : hash_concatenation(child_layer[2 * k], child_layer[2 * k + 1]))

\* merklize (merkle.rs:84-102): layer 0 is the root, the last layer the leaves
RECURSIVE merklize_layer(_, _, _)
merklize_layer(leaf_hashes, tree_depth, j) ==
    IF j = tree_depth THEN leaf_hashes
    ELSE build_parent_layer(merklize_layer(leaf_hashes, tree_depth, j + 1))

merklize(leaf_hashes) ==
    LET tree_depth == Log2(VLen(leaf_hashes))
    IN  Vec(tree_depth + 1, LAMBDA j : merklize_layer(leaf_hashes, tree_depth, j))

\* MerkleTree::get_root (merkle.rs:41-43)
get_root(tree) == tree[0][0]

\* index ^ 1
FlipLow(index) == IF index % 2 = 0 THEN index + 1 ELSE index - 1

\* index ^ 1 replaced by index: the path holds the ancestors themselves
get_merkle_path_NoSibling(tree, leaf_index) ==
    LET leaf_depth == VLen(tree) - 1
    IN  Vec(leaf_depth,
            LAMBDA d : tree[leaf_depth - d][leaf_index \div Pow2(d)])

\* get_merkle_path (merkle.rs:105-126): path[d] is the sibling at tree layer
\* leaf_depth - d of the ancestor leaf_index >> d
get_merkle_path(tree, leaf_index) ==
    LET leaf_depth == VLen(tree) - 1
    IN  Vec(leaf_depth,
            LAMBDA d : tree[leaf_depth - d][FlipLow(leaf_index \div Pow2(d))])

\* verify_merkle_path (merkle.rs:129-156): the hash after the first d steps
RECURSIVE merkle_walk(_, _, _, _)
merkle_walk(leaf_hash, leaf_index, merkle_path, d) ==
    IF d = 0 THEN leaf_hash
    ELSE LET hash == merkle_walk(leaf_hash, leaf_index, merkle_path, d - 1)
         IN  IF Bit(leaf_index, d - 1) = 0
             THEN hash_concatenation(hash, merkle_path[d - 1])
             ELSE hash_concatenation(merkle_path[d - 1], hash)

verify_merkle_path(commitment, leaf_hash, leaf_index, merkle_path) ==
    IF VLen(merkle_path) # commitment.depth THEN "Err"
    ELSE IF merkle_walk(leaf_hash, leaf_index, merkle_path, VLen(merkle_path))
            # commitment.root THEN "Err"
    ELSE "Ok"

\* ------------------------------------------------------------- Channel
\* Channel (channel.rs:12-24): state is the Keccak sponge; ops is the history
\* of the calls made on the channel with the bytes each one absorbed.
Channel_new == [state |-> Keccak_new, round_idx |-> 0, ops |-> << >>]

Absorb(ch, bytes, what) ==
    [ch EXCEPT !.state = Keccak_update(@, bytes),
               !.ops = Append(@, [op |-> what, bytes |-> bytes])]

\* observe_field_elem (channel.rs:25-37)
observe_field_elem(ch, elem) == Absorb(ch, FieldBytes(elem), "observe_field_elem")

\* observe_field_elems (channel.rs:39-52)
RECURSIVE observe_field_elems_upto(_, _, _)
observe_field_elems_upto(ch, elems, n) ==
    IF n = 0 THEN ch
    ELSE observe_field_elem(observe_field_elems_upto(ch, elems, n - 1), elems[n - 1])

observe_field_elems(ch, elems) == observe_field_elems_upto(ch, elems, VLen(elems))

\* observe_vector_commitment (channel.rs:54-57)
observe_vector_commitment(ch, commitment) ==
    Absorb(ch, HashBytes(commitment.root) \o UsizeBytes(commitment.depth),
           "observe_vector_commitment")

\* observe_fri_commitment (channel.rs:59-62)
observe_fri_commitment(ch, commitment) ==
    Absorb(observe_vector_commitment(ch, commitment.vector_commitment),
           UsizeBytes(commitment.packing_factor), "packing_factor")

\* BinaryField128b::deserialize of the digest: its low FieldBits bits
deserialize(digest) == digest % FieldSize

\* get_random_point taking the digest of a clone extended with the counter
\* and leaving the sponge as it was
get_random_point_CloneOnly(ch) ==
    LET state == Keccak_update(ch.state, UsizeBytes(ch.round_idx))
        out   == deserialize(Keccak_finalize(state))
    IN  [ch  |-> [round_idx |-> (ch.round_idx + 1) % Pow2(UsizeBits),
                  state     |-> ch.state,
                  ops       |-> Append(ch.ops, [op |-> "get_random_point",
                                                bytes |-> UsizeBytes(ch.round_idx)])],
         out |-> out]

\* get_random_point (channel.rs:64-74): the counter is absorbed into the
\* sponge itself, the digest is taken of a clone, and round_idx is advanced
\* (round_idx += 1 wraps in a build without overflow checks; the build with
\* them is the other outcome of ChSqueeze)
get_random_point(ch) ==
    LET state == Keccak_update(ch.state, UsizeBytes(ch.round_idx))
        out   == deserialize(Keccak_finalize(state))
    IN  [ch  |-> [round_idx |-> (ch.round_idx + 1) % Pow2(UsizeBits),
                  state     |-> state,
                  ops       |-> Append(ch.ops, [op |-> "get_random_point",
                                                bytes |-> UsizeBytes(ch.round_idx)])],
         out |-> out]

\* get_random_points (channel.rs:75-84): get_random_point called until n
\* points are collected
RECURSIVE get_random_points_from(_, _, _)
get_random_points_from(ch, out, n) ==
    IF VLen(out) = n THEN [ch |-> ch, out |-> out]
    ELSE LET point == get_random_point(ch)
         IN  get_random_points_from(point.ch, Push(out, point.out), n)

get_random_points(ch, n) == get_random_points_from(ch, Empty, n)

\* x << n on i32 in a build without overflow checks: the shift amount is
\* taken modulo the width and the result is read as a signed integer
shl_i32(x, n) ==
    LET v == (x * Pow2(n % I32Bits)) % Pow2(I32Bits)
    IN  IF v >= Pow2(I32Bits - 1) THEN v - Pow2(I32Bits) ELSE v

\* gen_queries (channel.rs:87-108) drawing count elements when the domain
\* holds at least count indices
gen_queries_count(ch, log_max_len, count) ==
    IF shl_i32(1, log_max_len) < count
    THEN [ch |-> ch, out |-> Vec(log_max_len, LAMBDA i : i)]
    ELSE LET random_elems == get_random_points(ch, count)
         IN  [ch  |-> random_elems.ch,
              out |-> Vec(count, LAMBDA k : random_elems.out[k] % Pow2(log_max_len))]

gen_queries(ch, log_max_len) == gen_queries_count(ch, log_max_len, NUM_QUERIES)

\* ----------------------------------------------------------------- MLE
\* PackedMLE::new (mle.rs:31-45) for the packed field F (packed = true) and
\* for BinaryField128b coefficients (packed = false)
PackedMLE_new(coeffs, packed) ==
    IF packed
    THEN [packing_factor |-> PackLevel,
          variables      |-> trailing_zeros(VLen(coeffs)) + PackLevel,
          coeffs         |-> coeffs]
    ELSE [packing_factor |-> 0,
          variables      |-> trailing_zeros(VLen(coeffs)),
          coeffs         |-> coeffs]

\* PackedMLE::packed_idx (mle.rs:49-55)
packed_idx(mle, idx) ==
    LET out_idx == idx \div Pow2(mle.packing_factor)
        in_idx  == idx - out_idx * Pow2(mle.packing_factor)
    IN  iter_bases(mle.coeffs[out_idx], in_idx)

\* PackedMLE::repack_for_fri (mle.rs:57-65)
repack_for_fri(mle) ==
    PackedMLE_new(Vec(VLen(mle.coeffs) \div Degree,
                      LAMBDA j : from_bases_chunk(mle.coeffs, j * Degree, Degree)),
                  FALSE)

\* PackedMLE::fold_lo folding towards the odd entry: r * (lo + hi) + hi
mle_fold_lo_TowardsHi(mle, r) ==
    PackedMLE_new(Vec(VLen(mle.coeffs) \div 2,
                      LAMBDA i : FAdd(FMul(r, FAdd(mle.coeffs[2 * i],
                                                   mle.coeffs[2 * i + 1])),
                                      mle.coeffs[2 * i + 1])),
                  FALSE)

\* PackedMLE::fold_lo (mle.rs:128-136)
mle_fold_lo(mle, r) ==
    PackedMLE_new(Vec(VLen(mle.coeffs) \div 2,
                      LAMBDA i : FAdd(FMul(r, FAdd(mle.coeffs[2 * i],
                                                   mle.coeffs[2 * i + 1])),
                                      mle.coeffs[2 * i])),
                  FALSE)

\* LagrangeBases::gen_from_point (mle.rs:200-205)
gen_from_point(point) == [vals |-> compute_eq(point), vars |-> VLen(point)]

\* LagrangeBases::from_mle (mle.rs:192-198)
from_mle(mle) == [vals |-> mle.coeffs, vars |-> trailing_zeros(VLen(mle.coeffs))]

\* LagrangeBases::fold_lo folding towards the odd entry
eq_fold_lo_TowardsHi(eq, r) ==
    [vals |-> Vec(VLen(eq.vals) \div 2,
                  LAMBDA i : FAdd(FMul(r, FAdd(eq.vals[2 * i], eq.vals[2 * i + 1])),
                                  eq.vals[2 * i + 1])),
     vars |-> eq.vars - 1]

\* LagrangeBases::fold_lo (mle.rs:221-230)
eq_fold_lo(eq, r) ==
    [vals |-> Vec(VLen(eq.vals) \div 2,
                  LAMBDA i : FAdd(FMul(r, FAdd(eq.vals[2 * i], eq.vals[2 * i + 1])),
                                  eq.vals[2 * i])),
     vars |-> eq.vars - 1]

\* zip of the FieldBits bits of x with scalars, multiplied and summed
BitsDot(x, scalars) ==
    LET n == IF VLen(scalars) < FieldBits THEN VLen(scalars) ELSE FieldBits
    IN  FSum(Vec(n, LAMBDA b : IF iter_bases(x, b) = 1 THEN scalars[b] ELSE 0))

\* LagrangeBases::row_batch (mle.rs:233-247)
row_batch(self, eq) ==
    [vals |-> Vec(VLen(self.vals), LAMBDA i : BitsDot(self.vals[i], eq.vals)),
     vars |-> self.vars]

\* PackedMLE::get_bound_elem (mle.rs:66-78)
get_bound_elem(mle, idx, eq) ==
    IF eq.vars > 0
    THEN FSum(Vec(VLen(eq.vals),
                  LAMBDA sub_cube :
                      IF packed_idx(mle, idx * Pow2(eq.vars) + sub_cube) = 1
                      THEN eq.vals[sub_cube] ELSE 0))
    ELSE packed_idx(mle, idx)

\* switch_view (mle.rs:311-327): row i collects bit i of vals[0..FieldBits-1]
switch_view(vals) ==
    Vec(FieldBits,
        LAMBDA i : from_bases_bits(Vec(FieldBits, LAMBDA j : iter_bases(vals[j], i))))

\* compute_row_batch on the column view, without switch_view
compute_row_batch_ColumnView(scalars, vals) ==
    LET n == IF VLen(scalars) < FieldBits THEN VLen(scalars) ELSE FieldBits
    IN  FSum(Vec(n, LAMBDA i : FMul(scalars[i], vals[i])))

\* compute_row_batch (mle.rs:300-308)
compute_row_batch(scalars, vals) ==
    LET row_view == switch_view(vals)
        n        == IF VLen(scalars) < FieldBits THEN VLen(scalars) ELSE FieldBits
    IN  FSum(Vec(n, LAMBDA i : FMul(scalars[i], row_view[i])))

\* -------------------------------------------------------------- prover
\* Univariate::evaluate (prover.rs:296-303): Horner over the reversed coeffs
RECURSIVE evaluate_from(_, _, _)
evaluate_from(coeffs, r, k) ==
    IF k = VLen(coeffs) THEN 0
    ELSE FAdd(coeffs[k], FMul(evaluate_from(coeffs, r, k + 1), r))

evaluate(oracle, r) == evaluate_from(oracle.coeffs, r, 0)

\* get_partial_evals (prover.rs:307-325)
get_partial_evals(mle, eq) ==
    Vec(Pow2(TAU),
        LAMBDA k :
            FSum(Vec(Pow2(mle.variables - TAU),
                     LAMBDA j : IF packed_idx(mle, k + j * Pow2(TAU)) = 1
                                THEN eq.vals[j] ELSE 0)))

\* sum_check_round computing eval_at_1 from the tables, not from the claim
sum_check_round_TrueSum(mle, eq, sum_check_claim) ==
    LET half_size   == VLen(mle.coeffs) \div 2
        eval_at_0   == FSum(Vec(half_size,
                           LAMBDA i : FMul(mle.coeffs[2 * i], eq.vals[2 * i])))
        eval_at_inf == FSum(Vec(half_size,
                           LAMBDA i : FMul(FAdd(mle.coeffs[2 * i], mle.coeffs[2 * i + 1]),
                                           FAdd(eq.vals[2 * i], eq.vals[2 * i + 1]))))
        eval_at_1   == FSum(Vec(half_size,
                           LAMBDA i : FMul(mle.coeffs[2 * i + 1], eq.vals[2 * i + 1])))
    IN  [coeffs |-> VecOfSeq(<<eval_at_0,
                               FAdd(FAdd(eval_at_0, eval_at_1), eval_at_inf),
                               eval_at_inf>>)]

\* sum_check_round (prover.rs:328-353)
sum_check_round(mle, eq, sum_check_claim) ==
    LET half_size   == VLen(mle.coeffs) \div 2
        eval_at_0   == FSum(Vec(half_size,
                           LAMBDA i : FMul(mle.coeffs[2 * i], eq.vals[2 * i])))
        eval_at_inf == FSum(Vec(half_size,
                           LAMBDA i : FMul(FAdd(mle.coeffs[2 * i], mle.coeffs[2 * i + 1]),
                                           FAdd(eq.vals[2 * i], eq.vals[2 * i + 1]))))
        eval_at_1   == FAdd(sum_check_claim, eval_at_0)
    IN  [coeffs |-> VecOfSeq(<<eval_at_0,
                               FAdd(FAdd(eval_at_0, eval_at_1), eval_at_inf),
                               eval_at_inf>>)]

\* commit (prover.rs:19-44)
commit(mle) ==
    LET code        == new_ext(mle.coeffs)
        leaf_hashes == compute_leaf_hashes(code)
        merkle_tree == merklize(leaf_hashes)
    IN  [fri_commitment |->
             [vector_commitment |-> [root  |-> get_root(merkle_tree),
                                     depth |-> Log2(VLen(code)) - 1],
              packing_factor    |-> PackLevel],
         code        |-> code,
         merkle_tree |-> merkle_tree]

\* commit_oracle taking log2 of the encoding length as the depth
commit_oracle_DepthOfLength(code) ==
    LET leaf_hashes == compute_leaf_hashes(code)
        merkle_tree == merklize(leaf_hashes)
    IN  [vector_commitment |-> [root  |-> get_root(merkle_tree),
                                depth |-> Log2(VLen(code))],
         merkle_tree       |-> merkle_tree]

\* commit_oracle (prover.rs:47-57)
commit_oracle(code) ==
    LET leaf_hashes == compute_leaf_hashes(code)
        merkle_tree == merklize(leaf_hashes)
    IN  [vector_commitment |-> [root  |-> get_root(merkle_tree),
                                depth |-> Log2(VLen(code)) - 1],
         merkle_tree       |-> merkle_tree]

\* gather_round_queries (prover.rs:271-284)
gather_round_queries(tree, code, queries) ==
    [merkle_paths    |-> Vec(VLen(queries), LAMBDA i : get_merkle_path(tree, queries[i])),
     queried_symbols |-> Vec(VLen(queries),
                             LAMBDA i : <<code[2 * queries[i]], code[2 * queries[i] + 1]>>)]

\* -------------------------------------------------------------- verifier
\* compute_eq_table (verifier.rs:167-183): table after the first k coordinates
RECURSIVE compute_eq_table_upto(_, _)
compute_eq_table_upto(r, k) ==
    IF k = 1 THEN VecOfSeq(<<FAdd(1, r[0]), r[0]>>)
    ELSE LET temp == compute_eq_table_upto(r, k - 1)
             hi(i) == FMul(temp[i], r[k - 1])
         IN  Vec(2 * VLen(temp),
                 LAMBDA i : IF i < VLen(temp) THEN FAdd(temp[i], hi(i))
                            ELSE hi(i - VLen(temp)))

compute_eq_table(r) == compute_eq_table_upto(r, VLen(r))

\* ---------------------------------------------------------------- state
VARIABLES
    pc,          \* position in the run of tests.rs: commit, prove, verify
    mle,         \* the packed polynomial f (PackedMLE<F>)
    eval_point,  \* the evaluation point
    eval,        \* the claimed evaluation
    mode,        \* which prover runs: the code of prove, or one substituting
                 \* its own upper_partial_evals
    setup,       \* what commit returned: commitment, code, Merkle tree
    prover,      \* locals of prove / commit_phase / query_phase
    proof,       \* the EvalProof handed to verify
    tamper,      \* what was changed in the proof between prove and verify
    verifier,    \* locals of verify and its outcome
    unit         \* the component exercised on its own (Merkle tree, code,
                 \* MLE, channel) with the inputs and result of its last call

\* the variables of a commit / prove / verify run
run_vars == <<pc, mle, eval_point, eval, mode, setup, prover, proof, tamper, verifier>>

vars == <<pc, mle, eval_point, eval, mode, setup, prover, proof, tamper, verifier, unit>>

\* ---------------------------------------------------------------- inputs
\* Polynomials and points explored, generated from small seeds.
MleSeeds == 0 .. 2

PointSeeds == 1 .. 2

EvalDeltas == {0, 1}

MleCoeff(seed, i) == (seed * (i * i + 1) + (seed \div 2) * (i \div 2)) % PackSize

PointCoord(seed, i) == (seed * (2 * i + 1) + (seed \div 2) * i) % FieldSize

\* tests.rs:21-27: 2^l packed coefficients, l = rounds + 1
MleInput(seed, rounds) ==
    PackedMLE_new(Vec(Pow2(rounds + 1), LAMBDA i : MleCoeff(seed, i)), TRUE)

\* tests.rs:42-45: a point of l + PackLevel = TAU + rounds coordinates
PointInput(seed, rounds) == Vec(TAU + rounds, LAMBDA i : PointCoord(seed, i))

\* tests.rs:47-49: eval = f(point)
TrueEval(f, point) == get_bound_elem(f, 0, gen_from_point(point))

Rounds == VLen(eval_point) - TAU

\* eval_point.split_at(TAU)
Left(point) == Vec(TAU, LAMBDA i : point[i])

Right(point) == Vec(VLen(point) - TAU, LAMBDA i : point[TAU + i])

\* no component is exercised on its own
NoUnit == [kind |-> "none"]

NoProof ==
    [upper_partial_evals |-> Empty, sum_check_oracles |-> Empty,
     final_folded_value |-> 0, fri_oracles |-> Empty,
     fri_queried_symbols |-> Empty, fri_merkle_paths |-> Empty]

\* ProofState::default (prover.rs:161-168)
ProofState_default ==
    [fri_folded_codes |-> Empty, fri_oracles |-> Empty, fri_merkle_trees |-> Empty,
     sum_check_oracles |-> Empty, random_challenges |-> Empty]

ProverInit ==
    [ch |-> Channel_new, result |-> "running", round |-> 0,
     upper_partial_evals |-> Empty, batching_eq |-> Empty,
     repacked_mle |-> Empty, tensored_eq |-> Empty, sum_check_claim |-> 0,
     poly |-> Empty, r |-> 0, folded_code |-> Empty, oracle |-> Empty,
     proof_state |-> ProofState_default, final_code_folded_value |-> 0,
     queries |-> Empty]

VerifierInit ==
    [ch |-> Channel_new, result |-> "running", failed_check |-> "none",
     round |-> 0, sum_check_claim |-> 0, r |-> 0, random_point |-> Empty,
     current_queries |-> Empty, folded_symbols |-> Empty,
     merkle_results |-> Empty]

Init ==
    /\ pc = "commit"
    /\ \E rounds \in 0 .. MaxRounds, ms \in MleSeeds, ps \in PointSeeds,
          d \in EvalDeltas, m \in {"honest", "cheat"} :
          /\ (d = 0) => (m = "honest")
          /\ mle = MleInput(ms, rounds)
          /\ eval_point = PointInput(ps, rounds)
          /\ eval = FAdd(TrueEval(MleInput(ms, rounds), PointInput(ps, rounds)), d)
          /\ mode = m
    /\ setup = Empty
    /\ prover = ProverInit
    /\ proof = NoProof
    /\ tamper = [kind |-> "none"]
    /\ verifier = VerifierInit
    /\ unit = NoUnit

\* ------------------------------------------------------ commit and prove
\* tests.rs:39
Commit ==
    /\ pc = "commit"
    /\ setup' = commit(mle)
    /\ pc' = "prove"
    /\ UNCHANGED <<unit, mle, eval_point, eval, mode, prover, proof, tamper, verifier>>

\* The initial-claim sum of verify (verifier.rs:35-39)
InitialClaim(left_eq, upper_partial_evals) ==
    FSum(Vec(Pow2(TAU), LAMBDA i : FMul(left_eq[i], upper_partial_evals[i])))

\* The upper_partial_evals a prover may send: those of get_partial_evals, or
\* (mode "cheat") any vector differing from them in one entry that satisfies
\* the initial-claim check for the claimed eval.
ProverPartialEvals(honest_evals) ==
    IF mode = "honest" THEN {honest_evals}
    ELSE {u \in {[honest_evals EXCEPT ![i] = d] : i \in DOMAIN honest_evals, d \in Field} :
             InitialClaim(compute_eq_table(Left(eval_point)), u) = eval}

\* prove absorbing the partial evaluations before the batching squeeze
ProveStatement_AbsorbsPartialEvals ==
    /\ pc = "prove"
    /\ LET ch1      == observe_fri_commitment(prover.ch, setup.fri_commitment)
           ch2      == observe_field_elems(ch1, eval_point)
           ch3      == observe_field_elem(ch2, eval)
           right_eq == gen_from_point(Right(eval_point))
           tensor_batching_point ==
               get_random_points(
                   observe_field_elems(ch3, get_partial_evals(mle, right_eq)), TAU)
           batching_eq == gen_from_point(tensor_batching_point.out)
       IN  \E upper_partial_evals \in ProverPartialEvals(get_partial_evals(mle, right_eq)) :
               prover' = [prover EXCEPT
                   !.ch = tensor_batching_point.ch,
                   !.upper_partial_evals = upper_partial_evals,
                   !.batching_eq = batching_eq,
                   !.repacked_mle = repack_for_fri(mle),
                   !.sum_check_claim =
                       compute_row_batch(batching_eq.vals, upper_partial_evals),
                   !.tensored_eq = row_batch(right_eq, batching_eq)]
    /\ pc' = IF Rounds > 0 THEN "p_emit" ELSE "p_final"
    /\ UNCHANGED <<unit, mle, eval_point, eval, mode, setup, proof, tamper, verifier>>

\* prove up to the call of commit_phase (prover.rs:79-101)
ProveStatement ==
    /\ pc = "prove"
    /\ LET ch1      == observe_fri_commitment(prover.ch, setup.fri_commitment)
           ch2      == observe_field_elems(ch1, eval_point)
           ch3      == observe_field_elem(ch2, eval)
           right_eq == gen_from_point(Right(eval_point))
           tensor_batching_point == get_random_points(ch3, TAU)
           batching_eq == gen_from_point(tensor_batching_point.out)
       IN  \E upper_partial_evals \in ProverPartialEvals(get_partial_evals(mle, right_eq)) :
               prover' = [prover EXCEPT
                   !.ch = tensor_batching_point.ch,
                   !.upper_partial_evals = upper_partial_evals,
                   !.batching_eq = batching_eq,
                   !.repacked_mle = repack_for_fri(mle),
                   !.sum_check_claim =
                       compute_row_batch(batching_eq.vals, upper_partial_evals),
                   !.tensored_eq = row_batch(right_eq, batching_eq)]
    /\ pc' = IF Rounds > 0 THEN "p_emit" ELSE "p_final"
    /\ UNCHANGED <<unit, mle, eval_point, eval, mode, setup, proof, tamper, verifier>>

\* commit_phase, one round: the sum-check polynomial (prover.rs:203-205)
EmitSumcheckPoly ==
    /\ pc = "p_emit"
    /\ LET poly == sum_check_round(prover.repacked_mle, prover.tensored_eq,
                                   prover.sum_check_claim)
       IN  prover' = [prover EXCEPT
               !.poly = poly,
               !.ch = observe_field_elems(prover.ch, poly.coeffs)]
    /\ pc' = "p_challenge"
    /\ UNCHANGED <<unit, mle, eval_point, eval, mode, setup, proof, tamper, verifier>>

\* commit_phase, one round: the challenge (prover.rs:207-209)
AwaitChallenge ==
    /\ pc = "p_challenge"
    /\ LET r == get_random_point(prover.ch)
       IN  prover' = [prover EXCEPT
               !.ch = r.ch,
               !.r = r.out,
               !.sum_check_claim = evaluate(prover.poly, r.out)]
    /\ pc' = "p_fold"
    /\ UNCHANGED <<unit, mle, eval_point, eval, mode, setup, proof, tamper, verifier>>

\* commit_phase, one round, folding with the round's claim in place of r
FoldCodeAndCommit_WrongChallenge ==
    /\ pc = "p_fold"
    /\ LET previous    == IF prover.round = 0 THEN setup.code
                          ELSE prover.proof_state.fri_folded_codes[prover.round - 1]
           folded_code == fold_code(previous, prover.sum_check_claim, prover.round)
       IN  prover' = [prover EXCEPT
               !.folded_code = folded_code,
               !.oracle = commit_oracle(folded_code)]
    /\ pc' = "p_absorb"
    /\ UNCHANGED <<unit, mle, eval_point, eval, mode, setup, proof, tamper, verifier>>

\* commit_phase, one round: fold and commit (prover.rs:212-217)
FoldCodeAndCommit ==
    /\ pc = "p_fold"
    /\ LET previous    == IF prover.round = 0 THEN setup.code
                          ELSE prover.proof_state.fri_folded_codes[prover.round - 1]
           folded_code == fold_code(previous, prover.r, prover.round)
       IN  prover' = [prover EXCEPT
               !.folded_code = folded_code,
               !.oracle = commit_oracle(folded_code)]
    /\ pc' = "p_absorb"
    /\ UNCHANGED <<unit, mle, eval_point, eval, mode, setup, proof, tamper, verifier>>

\* ProofState::update (prover.rs:171-184)
ProofState_update(self, folded_code, commitment, merkle_tree, poly, challenge) ==
    [fri_folded_codes  |-> Push(self.fri_folded_codes, folded_code),
     fri_oracles       |-> Push(self.fri_oracles, commitment),
     fri_merkle_trees  |-> Push(self.fri_merkle_trees, merkle_tree),
     sum_check_oracles |-> Push(self.sum_check_oracles, poly),
     random_challenges |-> Push(self.random_challenges, challenge)]

\* commit_phase, one round, leaving tensored_eq unfolded
AbsorbCommitment_KeepEq ==
    /\ pc = "p_absorb"
    /\ prover' = [prover EXCEPT
           !.ch = observe_vector_commitment(prover.ch, prover.oracle.vector_commitment),
           !.proof_state = ProofState_update(prover.proof_state, prover.folded_code,
                               prover.oracle.vector_commitment,
                               prover.oracle.merkle_tree, prover.poly, prover.r),
           !.repacked_mle = mle_fold_lo(prover.repacked_mle, prover.r),
           !.round = prover.round + 1]
    /\ pc' = IF prover.round + 1 < Rounds THEN "p_emit" ELSE "p_final"
    /\ UNCHANGED <<unit, mle, eval_point, eval, mode, setup, proof, tamper, verifier>>

\* commit_phase, one round: absorb the commitment, record, fold (prover.rs:219-223)
AbsorbCommitment ==
    /\ pc = "p_absorb"
    /\ prover' = [prover EXCEPT
           !.ch = observe_vector_commitment(prover.ch, prover.oracle.vector_commitment),
           !.proof_state = ProofState_update(prover.proof_state, prover.folded_code,
                               prover.oracle.vector_commitment,
                               prover.oracle.merkle_tree, prover.poly, prover.r),
           !.repacked_mle = mle_fold_lo(prover.repacked_mle, prover.r),
           !.tensored_eq = eq_fold_lo(prover.tensored_eq, prover.r),
           !.round = prover.round + 1]
    /\ pc' = IF prover.round + 1 < Rounds THEN "p_emit" ELSE "p_final"
    /\ UNCHANGED <<unit, mle, eval_point, eval, mode, setup, proof, tamper, verifier>>

\* prove going on to the query phase without absorbing the final value
ProveFinal_NoAbsorb ==
    /\ pc = "p_final"
    /\ IF Rounds = 0
       THEN /\ prover' = [prover EXCEPT !.result = "panicked"]
            /\ pc' = "done"
       ELSE /\ LET final == prover.proof_state.fri_folded_codes[Rounds - 1][0]
               IN  prover' = [prover EXCEPT !.final_code_folded_value = final]
            /\ pc' = "p_query"
    /\ UNCHANGED <<unit, mle, eval_point, eval, mode, setup, proof, tamper, verifier>>

\* The value commit_phase returns (prover.rs:226) and its absorption
\* (prover.rs:114).  With rounds = 0 the index rounds - 1 is out of range and
\* the call aborts.
ProveFinal ==
    /\ pc = "p_final"
    /\ IF Rounds = 0
       THEN /\ prover' = [prover EXCEPT !.result = "panicked"]
            /\ pc' = "done"
       ELSE /\ LET final == prover.proof_state.fri_folded_codes[Rounds - 1][0]
               IN  prover' = [prover EXCEPT
                       !.final_code_folded_value = final,
                       !.ch = observe_field_elem(prover.ch, final)]
            /\ pc' = "p_query"
    /\ UNCHANGED <<unit, mle, eval_point, eval, mode, setup, proof, tamper, verifier>>

\* i >> k
Shr(i, k) == i \div Pow2(k)

\* query_phase opening the leaves at the indices gen_queries returned
QueryPhase_NoShift ==
    /\ pc = "p_query"
    /\ LET drawn   == gen_queries(prover.ch, Rounds + LOG_RATE)
           queries == drawn.out
           tree(round) == IF round = 0 THEN setup.merkle_tree
                          ELSE prover.proof_state.fri_merkle_trees[round - 1]
           code(round) == IF round = 0 THEN setup.code
                          ELSE prover.proof_state.fri_folded_codes[round - 1]
           in_range == \A round \in 0 .. (Rounds - 1) : \A i \in DOMAIN queries :
                           /\ Shr(queries[i], round)
                                  < VLen(tree(round)[VLen(tree(round)) - 1])
                           /\ 2 * Shr(queries[i], round) + 1 < VLen(code(round))
           gathered == Vec(Rounds,
                           LAMBDA round :
                               gather_round_queries(tree(round), code(round),
                                   Vec(VLen(queries), LAMBDA i : Shr(queries[i], round))))
       IN  IF ~in_range
           THEN /\ prover' = [prover EXCEPT !.ch = drawn.ch, !.queries = queries,
                                            !.result = "panicked"]
                /\ proof' = proof
                /\ pc' = "done"
           ELSE /\ prover' = [prover EXCEPT !.ch = drawn.ch, !.queries = queries,
                                            !.result = "ok"]
                /\ proof' =
                       [upper_partial_evals |-> prover.upper_partial_evals,
                        sum_check_oracles   |-> prover.proof_state.sum_check_oracles,
                        final_folded_value  |-> prover.final_code_folded_value,
                        fri_oracles         |-> prover.proof_state.fri_oracles,
                        fri_queried_symbols |->
                            Vec(Rounds, LAMBDA round : gathered[round].queried_symbols),
                        fri_merkle_paths    |->
                            Vec(Rounds, LAMBDA round : gathered[round].merkle_paths)]
                /\ pc' = "deliver"
    /\ UNCHANGED <<unit, mle, eval_point, eval, mode, setup, tamper, verifier>>

\* query_phase (prover.rs:229-269) and EvalProof::new (prover.rs:119-125); the
\* call aborts on the bound assertion of get_merkle_path (merkle.rs:111-114)
\* and on an index outside the code (prover.rs:279-281)
QueryPhase ==
    /\ pc = "p_query"
    /\ LET drawn   == gen_queries(prover.ch, Rounds + LOG_RATE)
           queries == Vec(VLen(drawn.out), LAMBDA i : Shr(drawn.out[i], 1))
           tree(round) == IF round = 0 THEN setup.merkle_tree
                          ELSE prover.proof_state.fri_merkle_trees[round - 1]
           code(round) == IF round = 0 THEN setup.code
                          ELSE prover.proof_state.fri_folded_codes[round - 1]
           in_range == \A round \in 0 .. (Rounds - 1) : \A i \in DOMAIN queries :
                           /\ Shr(queries[i], round)
                                  < VLen(tree(round)[VLen(tree(round)) - 1])
                           /\ 2 * Shr(queries[i], round) + 1 < VLen(code(round))
           gathered == Vec(Rounds,
                           LAMBDA round :
                               gather_round_queries(tree(round), code(round),
                                   Vec(VLen(queries), LAMBDA i : Shr(queries[i], round))))
       IN  IF ~in_range
           THEN /\ prover' = [prover EXCEPT !.ch = drawn.ch, !.queries = queries,
                                            !.result = "panicked"]
                /\ proof' = proof
                /\ pc' = "done"
           ELSE /\ prover' = [prover EXCEPT !.ch = drawn.ch, !.queries = queries,
                                            !.result = "ok"]
                /\ proof' =
                       [upper_partial_evals |-> prover.upper_partial_evals,
                        sum_check_oracles   |-> prover.proof_state.sum_check_oracles,
                        final_folded_value  |-> prover.final_code_folded_value,
                        fri_oracles         |-> prover.proof_state.fri_oracles,
                        fri_queried_symbols |->
                            Vec(Rounds, LAMBDA round : gathered[round].queried_symbols),
                        fri_merkle_paths    |->
                            Vec(Rounds, LAMBDA round : gathered[round].merkle_paths)]
                /\ pc' = "deliver"
    /\ UNCHANGED <<unit, mle, eval_point, eval, mode, setup, tamper, verifier>>

\* ------------------------------------------------- between prove and verify
\* tests.rs:72-74: the proof is handed to verify as prove returned it
Deliver ==
    /\ pc = "deliver"
    /\ pc' = "verify"
    /\ UNCHANGED <<unit, mle, eval_point, eval, mode, setup, prover, proof, tamper, verifier>>

\* Largest query position whose symbols or path are changed, and the changes
\* are made to proofs of the honest prover for the true evaluation.
MaxTamperIdx == 0

CanTamper == pc = "deliver" /\ mode = "honest" /\ eval = TrueEval(mle, eval_point)

Tampered(p, t) ==
    /\ proof' = p
    /\ tamper' = t
    /\ pc' = "verify"
    /\ UNCHANGED <<unit, mle, eval_point, eval, mode, setup, prover, verifier>>

\* final_folded_value changed by d
TamperFinal ==
    /\ CanTamper
    /\ \E d \in Field \ {0} :
          Tampered([proof EXCEPT !.final_folded_value = FAdd(@, d)],
                   [kind |-> "final", d |-> d])

\* coefficient j of sum_check_oracles[round] changed by d
TamperOracle ==
    /\ CanTamper
    /\ \E round \in DOMAIN proof.sum_check_oracles, j \in 0 .. 2, d \in Field \ {0} :
          Tampered([proof EXCEPT !.sum_check_oracles[round].coeffs[j] = FAdd(@, d)],
                   [kind |-> "oracle", round |-> round, j |-> j, d |-> d])

\* upper_partial_evals[i] changed by d
TamperPartialEval ==
    /\ CanTamper
    /\ \E i \in DOMAIN proof.upper_partial_evals, d \in Field \ {0} :
          Tampered([proof EXCEPT !.upper_partial_evals[i] = FAdd(@, d)],
                   [kind |-> "upper_partial_eval", i |-> i, d |-> d])

\* one symbol (which = 1: s0, which = 2: s1) of the pair
\* fri_queried_symbols[round][i] changed by d
TamperSymbol ==
    /\ CanTamper
    /\ \E round \in DOMAIN proof.fri_queried_symbols, which \in {1, 2}, d \in Field \ {0} :
       \E i \in DOMAIN proof.fri_queried_symbols[round] :
          /\ i <= MaxTamperIdx
          /\ Tampered([proof EXCEPT !.fri_queried_symbols[round][i][which] = FAdd(@, d)],
                      [kind |-> "symbol", round |-> round, i |-> i,
                       which |-> which, d |-> d])

\* both symbols of the pair fri_queried_symbols[round][i] changed, to a pair
\* that fold maps to the value of the pair it replaces
TamperSymbolPair ==
    /\ CanTamper
    /\ \E round \in DOMAIN proof.fri_queried_symbols,
          d0 \in Field \ {0}, d1 \in Field \ {0} :
       \E i \in DOMAIN proof.fri_queried_symbols[round] :
          LET r     == prover.proof_state.random_challenges[round]
              query == Shr(prover.queries[i], round)
              pair  == proof.fri_queried_symbols[round][i]
          IN  /\ i <= MaxTamperIdx
              /\ fold(r, round, query, FAdd(pair[1], d0), FAdd(pair[2], d1))
                     = fold(r, round, query, pair[1], pair[2])
              /\ Tampered([proof EXCEPT !.fri_queried_symbols[round][i] =
                                            <<FAdd(pair[1], d0), FAdd(pair[2], d1)>>],
                          [kind |-> "symbol_pair", round |-> round, i |-> i,
                           d0 |-> d0, d1 |-> d1])

\* entries i and j of fri_queried_symbols[round] swapped
TamperSwap ==
    /\ CanTamper
    /\ \E round \in DOMAIN proof.fri_queried_symbols :
       \E i \in DOMAIN proof.fri_queried_symbols[round],
          j \in DOMAIN proof.fri_queried_symbols[round] :
          /\ round >= 1
          /\ i < j
          /\ proof.fri_queried_symbols[round][i] # proof.fri_queried_symbols[round][j]
          /\ Tampered([proof EXCEPT !.fri_queried_symbols[round] =
                           [@ EXCEPT ![i] = proof.fri_queried_symbols[round][j],
                                     ![j] = proof.fri_queried_symbols[round][i]]],
                      [kind |-> "swap", round |-> round, i |-> i, j |-> j])

\* hash d of the path fri_merkle_paths[round][i] replaced by another hash
TamperPathHash ==
    /\ CanTamper
    /\ \E round \in DOMAIN proof.fri_merkle_paths :
       \E i \in DOMAIN proof.fri_merkle_paths[round] :
       \E d \in DOMAIN proof.fri_merkle_paths[round][i] :
          /\ i <= MaxTamperIdx
          /\ Tampered([proof EXCEPT !.fri_merkle_paths[round][i][d] = (@ + 1) % HashMod],
                      [kind |-> "path_hash", round |-> round, i |-> i, d |-> d])

\* the path fri_merkle_paths[round][i] truncated by its last hash
TamperPathTruncate ==
    /\ CanTamper
    /\ \E round \in DOMAIN proof.fri_merkle_paths :
       \E i \in DOMAIN proof.fri_merkle_paths[round] :
          /\ i <= MaxTamperIdx
          /\ VLen(proof.fri_merkle_paths[round][i]) > 0
          /\ Tampered([proof EXCEPT !.fri_merkle_paths[round][i] =
                           Vec(VLen(@) - 1, LAMBDA d : @[d])],
                      [kind |-> "path_truncate", round |-> round, i |-> i])

\* v without its last entry
DropLast(v) == Vec(VLen(v) - 1, LAMBDA i : v[i])

\* v with its last entry once more at the end
RepeatLast(v) == Push(v, v[VLen(v) - 1])

\* one trailing entry added to a vector of the proof: to upper_partial_evals,
\* to fri_oracles, to the per-round vectors or to the per-query vectors of a
\* round
TamperExtend ==
    /\ CanTamper
    /\ \/ Tampered([proof EXCEPT !.upper_partial_evals = Push(@, 0)],
                   [kind |-> "extend", field |-> "upper_partial_evals"])
       \/ Tampered([proof EXCEPT !.fri_oracles = RepeatLast(@)],
                   [kind |-> "extend", field |-> "fri_oracles"])
       \/ Tampered([proof EXCEPT !.fri_queried_symbols = RepeatLast(@)],
                   [kind |-> "extend", field |-> "fri_queried_symbols"])
       \/ Tampered([proof EXCEPT !.fri_merkle_paths = RepeatLast(@)],
                   [kind |-> "extend", field |-> "fri_merkle_paths"])
       \/ \E round \in DOMAIN proof.fri_queried_symbols :
              Tampered([proof EXCEPT !.fri_queried_symbols[round] = RepeatLast(@)],
                       [kind |-> "extend", field |-> "fri_queried_symbols",
                        round |-> round])
       \/ \E round \in DOMAIN proof.fri_merkle_paths :
              Tampered([proof EXCEPT !.fri_merkle_paths[round] = RepeatLast(@)],
                       [kind |-> "extend", field |-> "fri_merkle_paths",
                        round |-> round])

\* the last entry of a vector of the proof removed
TamperDrop ==
    /\ CanTamper
    /\ \/ Tampered([proof EXCEPT !.upper_partial_evals = DropLast(@)],
                   [kind |-> "drop", field |-> "upper_partial_evals"])
       \/ Tampered([proof EXCEPT !.sum_check_oracles = DropLast(@)],
                   [kind |-> "drop", field |-> "sum_check_oracles"])
       \/ Tampered([proof EXCEPT !.fri_oracles = DropLast(@)],
                   [kind |-> "drop", field |-> "fri_oracles"])
       \/ Tampered([proof EXCEPT !.fri_queried_symbols = DropLast(@)],
                   [kind |-> "drop", field |-> "fri_queried_symbols"])
       \/ Tampered([proof EXCEPT !.fri_merkle_paths = DropLast(@)],
                   [kind |-> "drop", field |-> "fri_merkle_paths"])
       \/ \E round \in DOMAIN proof.fri_queried_symbols :
              Tampered([proof EXCEPT !.fri_queried_symbols[round] = DropLast(@)],
                       [kind |-> "drop", field |-> "fri_queried_symbols",
                        round |-> round])
       \/ \E round \in DOMAIN proof.fri_merkle_paths :
              Tampered([proof EXCEPT !.fri_merkle_paths[round] = DropLast(@)],
                       [kind |-> "drop", field |-> "fri_merkle_paths",
                        round |-> round])

\* ---------------------------------------------------------------- verify
\* A failed assert_eq!, expect or index of verify aborts the call.
Panic(check) ==
    /\ verifier' = [verifier EXCEPT !.result = "panicked", !.failed_check = check]
    /\ pc' = "done"

\* verify up to the round loop (verifier.rs:27-55)
VerifyStatement ==
    /\ pc = "verify"
    /\ LET ch1     == observe_fri_commitment(verifier.ch, setup.fri_commitment)
           ch2     == observe_field_elems(ch1, eval_point)
           ch3     == observe_field_elem(ch2, eval)
           left_eq == compute_eq_table(Left(eval_point))
           tensor_batching_point == get_random_points(ch3, TAU)
           batching_eq == compute_eq_table(tensor_batching_point.out)
       IN  IF VLen(proof.upper_partial_evals) < Pow2(TAU)
           THEN Panic("index")
           ELSE IF InitialClaim(left_eq, proof.upper_partial_evals) # eval
           THEN Panic("initial_claim")
           ELSE IF VLen(proof.upper_partial_evals) < FieldBits
           THEN Panic("index")
           ELSE IF Rounds # VLen(proof.sum_check_oracles)
           THEN Panic("oracle_count")
           ELSE /\ verifier' = [verifier EXCEPT
                       !.ch = tensor_batching_point.ch,
                       !.sum_check_claim =
                           compute_row_batch(batching_eq, proof.upper_partial_evals)]
                /\ pc' = IF Rounds > 0 THEN "v_check" ELSE "v_final_absorb"
    /\ UNCHANGED <<unit, mle, eval_point, eval, mode, setup, prover, proof, tamper>>

\* round loop: the sum-check relation (verifier.rs:57-63)
CheckSumcheck ==
    /\ pc = "v_check"
    /\ LET oracle == proof.sum_check_oracles[verifier.round]
       IN  IF FAdd(evaluate(oracle, 0), evaluate(oracle, 1)) # verifier.sum_check_claim
           THEN Panic("sum_check")
           ELSE /\ pc' = "v_challenge"
                /\ UNCHANGED verifier
    /\ UNCHANGED <<unit, mle, eval_point, eval, mode, setup, prover, proof, tamper>>

\* round loop squeezing r before the oracle is absorbed
AbsorbChallenge_SqueezeFirst ==
    /\ pc = "v_challenge"
    /\ LET oracle == proof.sum_check_oracles[verifier.round]
           r      == get_random_point(verifier.ch)
       IN  verifier' = [verifier EXCEPT
               !.ch = observe_field_elems(r.ch, oracle.coeffs), !.r = r.out]
    /\ pc' = "v_commitment"
    /\ UNCHANGED <<unit, mle, eval_point, eval, mode, setup, prover, proof, tamper>>

\* round loop: absorb the oracle, squeeze r (verifier.rs:65-67)
AbsorbChallenge ==
    /\ pc = "v_challenge"
    /\ LET oracle == proof.sum_check_oracles[verifier.round]
           r      == get_random_point(observe_field_elems(verifier.ch, oracle.coeffs))
       IN  verifier' = [verifier EXCEPT !.ch = r.ch, !.r = r.out]
    /\ pc' = "v_commitment"
    /\ UNCHANGED <<unit, mle, eval_point, eval, mode, setup, prover, proof, tamper>>

\* round loop: absorb the round's FRI commitment (verifier.rs:69-72)
AbsorbOracleCommitment ==
    /\ pc = "v_commitment"
    /\ IF verifier.round \notin DOMAIN proof.fri_oracles
       THEN Panic("index")
       ELSE /\ verifier' = [verifier EXCEPT
                   !.ch = observe_vector_commitment(verifier.ch,
                              proof.fri_oracles[verifier.round]),
                   !.sum_check_claim =
                       evaluate(proof.sum_check_oracles[verifier.round], verifier.r),
                   !.random_point = Push(@, verifier.r),
                   !.round = verifier.round + 1]
            /\ pc' = IF verifier.round + 1 < Rounds THEN "v_check" ELSE "v_final_absorb"
    /\ UNCHANGED <<unit, mle, eval_point, eval, mode, setup, prover, proof, tamper>>

\* absorb the final value and draw the queries (verifier.rs:75-86)
VerifyQueries ==
    /\ pc = "v_final_absorb"
    /\ LET ch1   == observe_field_elem(verifier.ch, proof.final_folded_value)
           drawn == gen_queries(ch1, Rounds + LOG_RATE)
       IN  verifier' = [verifier EXCEPT
               !.ch = drawn.ch,
               !.current_queries = Vec(VLen(drawn.out), LAMBDA i : Shr(drawn.out[i], 1)),
               !.round = 0]
    /\ pc' = IF Rounds > 0 THEN "v_query" ELSE "v_final"
    /\ UNCHANGED <<unit, mle, eval_point, eval, mode, setup, prover, proof, tamper>>

\* The closure of the query loop taking the twiddle of the parent position
QueryStep_ParentPosition(round, i) ==
    LET have    == /\ round \in DOMAIN proof.fri_queried_symbols
                   /\ i \in DOMAIN proof.fri_queried_symbols[round]
                   /\ round \in DOMAIN proof.fri_merkle_paths
                   /\ i \in DOMAIN proof.fri_merkle_paths[round]
        queried_symbols == proof.fri_queried_symbols[round][i]
        merkle_path     == proof.fri_merkle_paths[round][i]
        q       == verifier.current_queries[i]
        chosen  == IF q % 2 = 1 THEN queried_symbols[2] ELSE queried_symbols[1]
        query   == IF round = 0 THEN q ELSE Shr(q, 1)
        target  == IF round = 0 THEN setup.fri_commitment.vector_commitment
                   ELSE proof.fri_oracles[round - 1]
    IN  IF ~have THEN [failed |-> "index"]
        ELSE IF round > 0 /\ verifier.folded_symbols[i] # chosen
        THEN [failed |-> "fold_consistency"]
        ELSE [failed |-> "none",
              query  |-> query,
              merkle |-> verify_merkle_path(target, hash_tuple(queried_symbols),
                                            query, merkle_path),
              folded |-> fold(verifier.random_point[round], round, Shr(query, 1),
                              queried_symbols[1], queried_symbols[2])]

\* The closure of the query loop for query i of a round (verifier.rs:92-111,
\* 117-154): what it checks, the leaf index it ends with, the result of
\* verify_merkle_path (which the closure drops) and the value it returns.
QueryStep(round, i) ==
    LET have    == /\ round \in DOMAIN proof.fri_queried_symbols
                   /\ i \in DOMAIN proof.fri_queried_symbols[round]
                   /\ round \in DOMAIN proof.fri_merkle_paths
                   /\ i \in DOMAIN proof.fri_merkle_paths[round]
        queried_symbols == proof.fri_queried_symbols[round][i]
        merkle_path     == proof.fri_merkle_paths[round][i]
        q       == verifier.current_queries[i]
        chosen  == IF q % 2 = 1 THEN queried_symbols[2] ELSE queried_symbols[1]
        query   == IF round = 0 THEN q ELSE Shr(q, 1)
        target  == IF round = 0 THEN setup.fri_commitment.vector_commitment
                   ELSE proof.fri_oracles[round - 1]
    IN  IF ~have THEN [failed |-> "index"]
        ELSE IF round > 0 /\ verifier.folded_symbols[i] # chosen
        THEN [failed |-> "fold_consistency"]
        ELSE [failed |-> "none",
              query  |-> query,
              merkle |-> verify_merkle_path(target, hash_tuple(queried_symbols),
                                            query, merkle_path),
              folded |-> fold(verifier.random_point[round], round, query,
                              queried_symbols[1], queried_symbols[2])]

\* query loop, one round (verifier.rs:87-161)
VerifyQueryRound ==
    /\ pc = "v_query"
    /\ LET round == verifier.round
           n     == VLen(verifier.current_queries)
           step  == Vec(n, LAMBDA i : QueryStep(round, i))
           bad   == {i \in 0 .. (n - 1) : step[i].failed # "none"}
       IN  IF bad # {}
           THEN Panic(step[CHOOSE i \in bad : \A j \in bad : i <= j].failed)
           ELSE /\ verifier' = [verifier EXCEPT
                       !.current_queries = Vec(n, LAMBDA i : step[i].query),
                       !.folded_symbols = Vec(n, LAMBDA i : step[i].folded),
                       !.merkle_results =
                           Push(@, Vec(n, LAMBDA i : step[i].merkle)),
                       !.round = round + 1]
                /\ pc' = IF round + 1 < Rounds THEN "v_query" ELSE "v_final"
    /\ UNCHANGED <<unit, mle, eval_point, eval, mode, setup, prover, proof, tamper>>

\* verify returning without the loop over the folded symbols
VerifyFinal_NoCheck ==
    /\ pc = "v_final"
    /\ verifier' = [verifier EXCEPT !.result = "accepted"]
    /\ pc' = "done"
    /\ UNCHANGED <<unit, mle, eval_point, eval, mode, setup, prover, proof, tamper>>

\* the final loop and the return (verifier.rs:162-165)
VerifyFinal ==
    /\ pc = "v_final"
    /\ IF \E i \in DOMAIN verifier.folded_symbols :
              verifier.folded_symbols[i] # proof.final_folded_value
       THEN Panic("final_value")
       ELSE /\ verifier' = [verifier EXCEPT !.result = "accepted"]
            /\ pc' = "done"
    /\ UNCHANGED <<unit, mle, eval_point, eval, mode, setup, prover, proof, tamper>>

Next ==
    \/ Commit
    \/ ProveStatement
    \/ EmitSumcheckPoly
    \/ AwaitChallenge
    \/ FoldCodeAndCommit
    \/ AbsorbCommitment
    \/ ProveFinal
    \/ QueryPhase
    \/ Deliver
    \/ TamperFinal
    \/ TamperOracle
    \/ TamperPartialEval
    \/ TamperSymbol
    \/ TamperSymbolPair
    \/ TamperSwap
    \/ TamperPathHash
    \/ TamperPathTruncate
    \/ TamperExtend
    \/ TamperDrop
    \/ VerifyStatement
    \/ CheckSumcheck
    \/ AbsorbChallenge
    \/ AbsorbOracleCommitment
    \/ VerifyQueries
    \/ VerifyQueryRound
    \/ VerifyFinal

Spec == Init /\ [][Next]_vars

\* ------------------------------------------ components on their own
\* The unit tests of utils/ call one component outside a prove / verify run;
\* the run variables then keep the values they have before commit.
RunIdle ==
    /\ pc = "unit"
    /\ mle = Empty
    /\ eval_point = Empty
    /\ eval = 0
    /\ mode = "honest"
    /\ setup = Empty
    /\ prover = ProverInit
    /\ proof = NoProof
    /\ tamper = [kind |-> "none"]
    /\ verifier = VerifierInit

\* ---------------------------------------------------- Merkle tree alone
\* Largest log2 of the number of leaves, and the leaf hashes tried
MaxLeafLog == 2

LeafValues == 0 .. 2

\* usize::is_power_of_two
is_power_of_two(n) == n >= 1 /\ Pow2(Log2(n)) = n

\* get_merkle_path_test (merkle.rs:211-233): the leaf hashes, of every length
\* up to 2^MaxLeafLog
MerkleInit ==
    /\ RunIdle
    /\ \E len \in 0 .. Pow2(MaxLeafLog) :
       \E leaves \in [0 .. (len - 1) -> LeafValues] :
          unit = [kind |-> "merkle", step |-> "leaves", leaf_hashes |-> leaves @@ Empty,
                  tree |-> Empty, commitment |-> Empty, index |-> 0, path |-> Empty,
                  leaf_hash |-> 0, forged |-> "none", result |-> "none"]

\* merkle.rs:223-227: the tree and its commitment; merklize asserts that the
\* number of leaves is a power of two (merkle.rs:85-88)
MerkleBuild ==
    /\ unit.kind = "merkle" /\ unit.step = "leaves"
    /\ IF ~is_power_of_two(VLen(unit.leaf_hashes))
       THEN unit' = [unit EXCEPT !.step = "aborted", !.result = "panicked"]
       ELSE LET merkle_tree == merklize(unit.leaf_hashes)
            IN  unit' = [unit EXCEPT
                    !.step = "built",
                    !.tree = merkle_tree,
                    !.commitment = [root  |-> get_root(merkle_tree),
                                    depth |-> Log2(VLen(unit.leaf_hashes))]]
    /\ UNCHANGED run_vars

\* merkle.rs:229-230: the path of a leaf
MerkleOpen ==
    /\ unit.kind = "merkle" /\ unit.step = "built"
    /\ \E idx \in DOMAIN unit.leaf_hashes :
          unit' = [unit EXCEPT !.step = "opened", !.index = idx,
                               !.path = get_merkle_path(unit.tree, idx)]
    /\ UNCHANGED run_vars

\* merkle.rs:232: the path checked against the commitment
MerkleVerify ==
    /\ unit.kind = "merkle" /\ unit.step = "opened"
    /\ unit' = [unit EXCEPT
           !.step = "verified",
           !.result = verify_merkle_path(unit.commitment, unit.leaf_hashes[unit.index],
                                         unit.index, unit.path)]
    /\ UNCHANGED run_vars

\* verify_merkle_path called with an opening other than the honest one: the
\* index raised by the number of leaves, another leaf hash, or a path one
\* hash of which is changed
MerkleVerifyForged ==
    /\ unit.kind = "merkle" /\ unit.step = "opened"
    /\ \E forged \in {"index", "leaf", "path"} :
           LET honest     == unit.leaf_hashes[unit.index]
               leaf_hash  == IF forged = "leaf" THEN (honest + 1) % HashMod ELSE honest
               leaf_index == IF forged = "index"
                             THEN unit.index + VLen(unit.leaf_hashes) ELSE unit.index
               merkle_path == IF forged = "path"
                              THEN [unit.path EXCEPT ![0] = (@ + 1) % HashMod]
                              ELSE unit.path
           IN  /\ forged = "path" => VLen(unit.path) > 0
               /\ unit' = [unit EXCEPT
                       !.step = "checked",
                       !.forged = forged,
                       !.leaf_hash = leaf_hash,
                       !.index = leaf_index,
                       !.path = merkle_path,
                       !.result = verify_merkle_path(unit.commitment, leaf_hash,
                                                     leaf_index, merkle_path)]
    /\ UNCHANGED run_vars

MerkleNext ==
    \/ MerkleBuild
    \/ MerkleOpen
    \/ MerkleVerify
    \/ MerkleVerifyForged

MerkleSpec == MerkleInit /\ [][MerkleNext]_vars

\* ------------------------------------------------------- code alone
\* test_fold (code.rs:134-170): a message of 2^l field elements, l at most
\* MaxRounds, with entries among FoldValues
FoldValues == {0, 1, 11}

FoldInit ==
    /\ RunIdle
    /\ \E l \in 0 .. MaxRounds :
       \E poly \in [0 .. (Pow2(l) - 1) -> FoldValues] :
          unit = [kind |-> "fold", step |-> "message", message |-> poly @@ Empty,
                  code |-> Empty, r |-> Empty, round |-> 0]

\* code.rs:146
FoldEncode ==
    /\ unit.kind = "fold" /\ unit.step = "message"
    /\ unit' = [unit EXCEPT !.step = "code", !.code = Code_new(unit.message)]
    /\ UNCHANGED run_vars

\* code.rs:161-164: one fold_code with a challenge r[round]
FoldRound ==
    /\ unit.kind = "fold" /\ unit.step = "code"
    /\ unit.round < Log2(VLen(unit.message))
    /\ \E r \in Field :
          unit' = [unit EXCEPT !.code = fold_code(unit.code, r, unit.round),
                               !.r = Push(@, r),
                               !.round = unit.round + 1]
    /\ UNCHANGED run_vars

\* code.rs:153-159: the sum of poly[i] * eq(i; r)
poly_eval(poly, r) ==
    LET r_eq == gen_from_point(r)
    IN  FSum(Vec(VLen(poly), LAMBDA i : FMul(poly[i], r_eq.vals[i])))

FoldNext ==
    \/ FoldEncode
    \/ FoldRound

FoldSpec == FoldInit /\ [][FoldNext]_vars

\* -------------------------------------------------------- MLE alone
\* Largest half of the number of coefficients, and the coefficients tried:
\* elements of the packed field F for an MLE built with packed = true
\* (tests.rs:21-28), of BinaryField128b for one built with packed = false.
MaxHalfLen == 3

MleValues(packed) == IF packed THEN {0, 1, PackSize - 1} ELSE {0, 1, FieldSize - 5}

MleInit ==
    /\ RunIdle
    /\ \E half \in 1 .. MaxHalfLen, packed \in BOOLEAN :
       \E coeffs \in [0 .. (2 * half - 1) -> MleValues(packed)] :
          unit = [kind |-> "mle", step |-> "built",
                  mle |-> PackedMLE_new(coeffs @@ Empty, packed),
                  r |-> 0, folded |-> Empty]

\* PackedMLE::fold_lo called with a challenge r
MleFoldLo ==
    /\ unit.kind = "mle" /\ unit.step = "built"
    /\ \E r \in Field :
          unit' = [unit EXCEPT !.step = "mle_folded", !.r = r,
                               !.folded = mle_fold_lo(unit.mle, r)]
    /\ UNCHANGED run_vars

\* LagrangeBases::fold_lo called with a challenge r on the table
\* from_mle makes of an MLE with BinaryField128b coefficients
EqFoldLo ==
    /\ unit.kind = "mle" /\ unit.step = "built"
    /\ unit.mle.packing_factor = 0
    /\ \E r \in Field :
          unit' = [unit EXCEPT !.step = "eq_folded", !.r = r,
                               !.folded = eq_fold_lo(from_mle(unit.mle), r)]
    /\ UNCHANGED run_vars

MleNext ==
    \/ MleFoldLo
    \/ EqFoldLo

MleSpec == MleInit /\ [][MleNext]_vars

\* ---------------------------------------------------- channel alone
\* A channel driven call by call.  unit.before is the channel as the last
\* call found it, unit.call the call, unit.out what it returned and
\* unit.result how it ended.
ObserveValues == {1, FieldSize - 3}

\* Most observe_field_elem calls made on the channel
MaxObserves == 1

\* Arguments of gen_queries: every shift amount below the width of i32, the
\* width itself and one above
QueryLogs == 0 .. (I32Bits + 1)

Observes(ch) == Cardinality({k \in 1 .. Len(ch.ops) : ch.ops[k].op = "observe_field_elem"})

\* Channel::new (channel.rs:18-24)
ChannelInit ==
    /\ RunIdle
    /\ unit = [kind |-> "channel", ch |-> Channel_new, before |-> Channel_new,
               call |-> [op |-> "new", n |-> 0], out |-> Empty, result |-> "ok"]

CanCall ==
    /\ unit.kind = "channel"
    /\ unit.result = "ok"
    /\ Len(unit.ch.ops) <= UsizeMax + 1

Called(op, n, ch, out, result) ==
    /\ unit' = [kind |-> "channel", ch |-> ch, before |-> unit.ch,
                call |-> [op |-> op, n |-> n], out |-> out, result |-> result]
    /\ UNCHANGED run_vars

\* observe_field_elem (channel.rs:25-37)
ChObserve ==
    /\ CanCall
    /\ Observes(unit.ch) < MaxObserves
    /\ \E elem \in ObserveValues :
          Called("observe_field_elem", elem, observe_field_elem(unit.ch, elem),
                 Empty, "ok")

\* The sponge after the update of channel.rs:65, which precedes the overflow
AfterCounter(ch) == [ch EXCEPT !.state = Keccak_update(@, UsizeBytes(ch.round_idx))]

\* get_random_point (channel.rs:64-74).  At round_idx = usize::MAX the
\* addition of line 69 overflows: it panics in a build with overflow checks
\* and wraps to 0 in one without.
ChSqueeze ==
    /\ CanCall
    /\ LET point == get_random_point(unit.ch)
       IN  \/ Called("get_random_point", 0, point.ch, point.out, "ok")
           \/ /\ unit.ch.round_idx = UsizeMax
              /\ Called("get_random_point", 0, AfterCounter(unit.ch), Empty, "panicked")

\* gen_queries (channel.rs:87-108).  A shift by the width of i32 or more
\* panics in a build with overflow checks and takes the amount modulo the
\* width in one without.
ChGenQueries ==
    /\ CanCall
    /\ unit.ch.round_idx + NUM_QUERIES <= UsizeMax
    /\ \E log_max_len \in QueryLogs :
          LET queries == gen_queries(unit.ch, log_max_len)
          IN  \/ Called("gen_queries", log_max_len, queries.ch, queries.out, "ok")
              \/ /\ log_max_len >= I32Bits
                 /\ Called("gen_queries", log_max_len, unit.ch, Empty, "panicked")

ChannelNext ==
    \/ ChObserve
    \/ ChSqueeze
    \/ ChGenQueries

ChannelSpec == ChannelInit /\ [][ChannelNext]_vars

\* ------------------------------------------------- the sum-check on its own
\* Coordinates of the points and challenges explored
ScCoords == {0, 1, 6, 11}

\* Claims a caller hands to commit_phase
ScClaims == {0, 9}

ScPoints(n) == [0 .. (n - 1) -> ScCoords]

\* sum over i of table[i] * eq[i]
InnerProduct(table, eq) ==
    FSum(Vec(VLen(table.coeffs), LAMBDA i : FMul(table.coeffs[i], eq.vals[i])))

\* sum over i of table[2i + odd] * eq[2i + odd]
HalfProduct(table, eq, odd) ==
    FSum(Vec(VLen(table.coeffs) \div 2,
             LAMBDA i : FMul(table.coeffs[2 * i + odd], eq.vals[2 * i + odd])))

\* A packed polynomial of TAU + rounds variables, the upper part of an
\* evaluation point and a batching point: what prove works on
SumcheckInit ==
    /\ RunIdle
    /\ \E rounds \in 0 .. MaxRounds, ms \in MleSeeds :
       \E right \in ScPoints(rounds), batching \in ScPoints(TAU) :
           unit = [kind |-> "sumcheck", step |-> "start", entry |-> "none",
                   f |-> MleInput(ms, rounds), right |-> right, batching |-> batching,
                   mle |-> Empty, eq |-> Empty, claim |-> 0, round |-> 0,
                   before |-> Empty, poly |-> Empty, r |-> 0]

\* The tables prove hands to commit_phase (prover.rs:83-97)
ScTables ==
    LET right_eq    == gen_from_point(unit.right)
        batching_eq == gen_from_point(unit.batching)
    IN  [mle   |-> repack_for_fri(unit.f),
         eq    |-> row_batch(right_eq, batching_eq),
         claim |-> compute_row_batch(batching_eq.vals,
                                     get_partial_evals(unit.f, right_eq))]

ScStart(entry, claim) ==
    /\ unit.kind = "sumcheck"
    /\ unit.step = "start"
    /\ unit' = [unit EXCEPT !.entry = entry, !.mle = ScTables.mle, !.eq = ScTables.eq,
                            !.claim = claim,
                            !.step = IF VLen(ScTables.mle.coeffs) > 1
                                     THEN "round" ELSE "end"]
    /\ UNCHANGED run_vars

\* prove: the batched claim of the partial evaluations (prover.rs:83-97)
ScBatch == ScStart("batched", ScTables.claim)

\* commit_phase called with a claim of the caller's (prover.rs:187-195)
ScGiven == \E c \in ScClaims : ScStart("given", c)

\* commit_phase, the sum-check part of one round (prover.rs:203-209, 222-223)
ScRound ==
    /\ unit.kind = "sumcheck"
    /\ unit.step = "round"
    /\ \E r \in ScCoords :
           LET poly == sum_check_round(unit.mle, unit.eq, unit.claim)
               folded == mle_fold_lo(unit.mle, r)
           IN  unit' = [unit EXCEPT
                   !.before = [mle |-> unit.mle, eq |-> unit.eq, claim |-> unit.claim],
                   !.poly = poly,
                   !.r = r,
                   !.claim = evaluate(poly, r),
                   !.mle = folded,
                   !.eq = eq_fold_lo(unit.eq, r),
                   !.round = unit.round + 1,
                   !.step = IF VLen(folded.coeffs) > 1 THEN "round" ELSE "end"]
    /\ UNCHANGED run_vars

SumcheckNext == ScBatch \/ ScGiven \/ ScRound

SumcheckSpec == SumcheckInit /\ [][SumcheckNext]_vars

\* --------------------------------------------- equality tables on their own
MaxPointLen == 3

\* Points of every length up to MaxPointLen, the empty point included
EqInit ==
    /\ RunIdle
    /\ \E k \in 0 .. MaxPointLen : \E r \in ScPoints(k) :
           unit = [kind |-> "eq", r |-> r @@ Empty,
                   bases |-> [called |-> FALSE], table |-> [called |-> FALSE]]

\* LagrangeBases::gen_from_point (mle.rs:200-205)
EqGenFromPoint ==
    /\ unit.kind = "eq"
    /\ ~unit.bases.called
    /\ unit' = [unit EXCEPT !.bases = [called |-> TRUE, result |-> "ok",
                                       out |-> gen_from_point(unit.r)]]
    /\ UNCHANGED run_vars

\* compute_eq_table (verifier.rs:167-183): r[0] is read before the loop
EqComputeTable ==
    /\ unit.kind = "eq"
    /\ ~unit.table.called
    /\ unit' = [unit EXCEPT !.table =
                   IF 0 \notin DOMAIN unit.r
                   THEN [called |-> TRUE, result |-> "panicked", out |-> Empty]
                   ELSE [called |-> TRUE, result |-> "ok",
                         out |-> compute_eq_table(unit.r)]]
    /\ UNCHANGED run_vars

EqNext == EqGenFromPoint \/ EqComputeTable

EqSpec == EqInit /\ [][EqNext]_vars

\* ---------------------------------------------------------------- claims
\* The proof verify receives is the one prove returned for eval = f(eval_point).
HonestProof ==
    mode = "honest" /\ eval = TrueEval(mle, eval_point) /\ tamper.kind = "none"

\* Some verify_merkle_path call of the query loop returned Err
MerkleFailed ==
    \E round \in DOMAIN verifier.merkle_results :
        \E i \in DOMAIN verifier.merkle_results[round] :
            verifier.merkle_results[round][i] = "Err"

\* s is an initial segment of t
IsPrefix(s, t) == Len(s) <= Len(t) /\ SubSeq(t, 1, Len(s)) = s

C2_EvaluationBinding ==
    (pc = "done" /\ eval # TrueEval(mle, eval_point)) => verifier.result # "accepted"

\* C3 (Merkle paths): verify never accepts a proof for which some
\* verify_merkle_path call failed, through an altered hash or a path whose
\* length is not the commitment depth.
C3_MerkleFailureRejects ==
    (pc = "done" /\ MerkleFailed) => verifier.result # "accepted"

\* C4 (final folded value): verify ends in rejection whenever a symbol
\* folded in the last round differs from proof.final_folded_value, and so
\* every change of final_folded_value in an honest proof is rejected.
C4_FinalValueChecked ==
    /\ (pc = "done" /\ verifier.round = Rounds
        /\ \E i \in DOMAIN verifier.folded_symbols :
               verifier.folded_symbols[i] # proof.final_folded_value)
           => (verifier.result = "panicked" /\ verifier.failed_check = "final_value")
    /\ (pc = "done" /\ tamper.kind = "final") => verifier.result # "accepted"

C4_Witness ==
    /\ pc = "done"
    /\ tamper.kind = "final"
    /\ tamper.d = 1
    /\ verifier.round = Rounds
    /\ verifier.failed_check = "final_value"

\* C5 (sum-check oracles): changing one coefficient of one sum_check_oracle
\* of an honest proof makes verify reject.
C5_OracleChangeRejected ==
    (pc = "done" /\ tamper.kind = "oracle") => verifier.result # "accepted"

\* C6 (queried symbols): changing a queried symbol pair of an honest proof in
\* any round, or swapping two entries of fri_queried_symbols[k] (k >= 1) that
\* hold different pairs, makes verify reject.
C6_SymbolChangeRejected ==
    (pc = "done" /\ tamper.kind \in {"symbol", "symbol_pair", "swap"})
        => verifier.result # "accepted"

\* C7 (initial claim): verify rejects unless the sum of
\* left_eq[i] * upper_partial_evals[i] equals eval, and every change of one
\* upper_partial_eval of an honest proof is rejected.
C7_InitialClaimChecked ==
    /\ (pc = "done" /\ verifier.result = "accepted")
           => InitialClaim(compute_eq_table(Left(eval_point)),
                           proof.upper_partial_evals) = eval
    /\ (pc = "done" /\ tamper.kind = "upper_partial_eval") => verifier.result # "accepted"

\* C8 (error handling): every failed check of verify ends it by returning an
\* error to the caller: verify never panics on an invalid proof and never
\* returns success after a failed check.
C8_FailuresReturnErrors ==
    pc = "done" =>
        /\ verifier.result # "panicked"
        /\ (verifier.failed_check # "none" \/ MerkleFailed) => verifier.result = "error"

\* C10 (lock-step transcript): for an honest proof the channel operations of
\* verify are, operation for operation and byte for byte, those of prove, so
\* verify derives the challenges and query indices prove derived.
C10_LockStep ==
    (HonestProof /\ Rounds >= 1) =>
        /\ IsPrefix(verifier.ch.ops, prover.ch.ops)
        /\ (pc = "v_query" /\ verifier.round = 0)
               => verifier.current_queries = prover.queries
        /\ pc = "done" =>
               /\ verifier.ch.ops = prover.ch.ops
               /\ verifier.random_point = prover.proof_state.random_challenges

C10_Witness ==
    /\ pc = "done"
    /\ HonestProof
    /\ Rounds = MaxRounds
    /\ Len(verifier.ch.ops) = Len(prover.ch.ops)
    /\ VLen(verifier.random_point) = MaxRounds
    /\ \E k \in 1 .. Len(verifier.ch.ops) : verifier.ch.ops[k].op = "get_random_point"

\* C11 (Merkle round trip): for leaf vectors of every power-of-two length,
\* length 1 included, and every index i, verify_merkle_path returns Ok for
\* leaves[i], i and get_merkle_path(i) against the commitment holding the
\* root of merklize(leaves) and depth = log2 of the number of leaves.
C11_MerkleRoundTrip ==
    (unit.kind = "merkle" /\ unit.step = "verified") =>
        /\ unit.result = "Ok"
        /\ VLen(unit.path) = Log2(VLen(unit.leaf_hashes))

C11_Witness ==
    /\ unit.kind = "merkle"
    /\ unit.step = "verified"
    /\ VLen(unit.leaf_hashes) = Pow2(MaxLeafLog)
    /\ unit.index = Pow2(MaxLeafLog) - 1
    /\ unit.leaf_hashes[0] # unit.leaf_hashes[1]
    /\ unit.result = "Ok"

\* C12 (code fold): for a message p of 2^l field elements and challenges
\* r_0..r_(l-1), encoding p at rate 4 and folding l times with round indices
\* 0..l-1 gives a code of length 4 every entry of which is the multilinear
\* evaluation of p at (r_0..r_(l-1)).
C12_FoldIsEvaluation ==
    (unit.kind = "fold" /\ unit.step = "code"
     /\ unit.round = Log2(VLen(unit.message))) =>
        /\ VLen(unit.code) = RATE
        /\ \A k \in DOMAIN unit.code : unit.code[k] = poly_eval(unit.message, unit.r)

C12_Witness ==
    /\ unit.kind = "fold"
    /\ unit.step = "code"
    /\ VLen(unit.message) = Pow2(MaxRounds)
    /\ unit.round = MaxRounds
    /\ \A i \in DOMAIN unit.r : unit.r[i] \notin {0, 1}
    /\ unit.message[0] # unit.message[1]
    /\ unit.code[RATE - 1] = poly_eval(unit.message, unit.r)
    /\ unit.code[RATE - 1] # 0

\* The point (r, z_0, .., z_(n-1))
Cons(r, z) == Vec(VLen(z) + 1, LAMBDA i : IF i = 0 THEN r ELSE z[i - 1])

\* v is c folded on its lowest variable at r: half as long, entry i is
\* (1 - r) * c[2i] + r * c[2i+1], and when c has 2^n entries the polynomial
\* of v at z is the polynomial of c at (r, z) for the points z tried
IsFoldLo(v, c, r) ==
    /\ 2 * VLen(v) = VLen(c)
    /\ \A i \in DOMAIN v :
           v[i] = FAdd(FMul(FAdd(1, r), c[2 * i]), FMul(r, c[2 * i + 1]))
    /\ VLen(c) = Pow2(Log2(VLen(c))) =>
           \A z \in [0 .. (Log2(VLen(c)) - 2) -> {0, 1, r, FieldSize - 2}] :
               poly_eval(v, z @@ Empty) = poly_eval(c, Cons(r, z @@ Empty))

\* C13 (fold_lo): for every MLE with an even number >= 2 of coefficients and
\* every r, PackedMLE::fold_lo returns an MLE with half as many coefficients
\* and one fewer variable whose coefficients are (1 - r) * f(0,x) + r * f(1,x);
\* LagrangeBases::fold_lo applies the same recurrence and decrements vars.
C13_FoldLoLaw ==
    /\ (unit.kind = "mle" /\ unit.step = "mle_folded") =>
           /\ IsFoldLo(unit.folded.coeffs, unit.mle.coeffs, unit.r)
           /\ unit.folded.variables = unit.mle.variables - 1
    /\ (unit.kind = "mle" /\ unit.step = "eq_folded") =>
           /\ IsFoldLo(unit.folded.vals, unit.mle.coeffs, unit.r)
           /\ unit.folded.vars = from_mle(unit.mle).vars - 1

\* C13 as the code has it: the law holds for an MLE of BinaryField128b
\* coefficients (packing_factor = 0, what repack_for_fri returns) and for
\* LagrangeBases; for an MLE built with packed = true the result has
\* packing_factor 0 and trailing_zeros(len / 2) variables, which is
\* 1 + packing_factor fewer than the MLE folded.
C13_FoldLoLawUnpacked ==
    /\ (unit.kind = "mle" /\ unit.step = "mle_folded") =>
           /\ IsFoldLo(unit.folded.coeffs, unit.mle.coeffs, unit.r)
           /\ unit.folded.packing_factor = 0
           /\ unit.folded.variables
                  = unit.mle.variables - 1 - unit.mle.packing_factor
    /\ (unit.kind = "mle" /\ unit.step = "eq_folded") =>
           /\ IsFoldLo(unit.folded.vals, unit.mle.coeffs, unit.r)
           /\ unit.folded.vars = from_mle(unit.mle).vars - 1

C13_Witness ==
    /\ unit.kind = "mle"
    /\ unit.step = "mle_folded"
    /\ unit.mle.packing_factor = 0
    /\ VLen(unit.mle.coeffs) = 4
    /\ unit.r \notin {0, 1}
    /\ unit.mle.coeffs[0] # unit.mle.coeffs[1]
    /\ unit.folded.variables = 1

\* The last call on the channel was gen_queries(n) and it returned
GenQueriesReturned ==
    unit.kind = "channel" /\ unit.call.op = "gen_queries" /\ unit.result = "ok"

\* C14 (small domain): gen_queries(n) with 2^n < 144 (NUM_QUERIES at the
\* scale of the model) returns the list 0, 1, .., 2^n - 1 and leaves the
\* channel as it was.
C14_SmallDomainExhaustive ==
    (GenQueriesReturned /\ Pow2(unit.call.n) < NUM_QUERIES) =>
        /\ unit.out = Vec(Pow2(unit.call.n), LAMBDA i : i)
        /\ unit.ch = unit.before

\* C15 (large domain): gen_queries(n) with 2^n >= 144 (NUM_QUERIES at the
\* scale of the model) returns exactly that many indices, each below 2^n,
\* the k-th being the low n bits of the k-th consecutive squeeze, and
\* advances round_idx by as many.
C15_LargeDomainSamples ==
    (unit.kind = "channel" /\ unit.call.op = "gen_queries"
     /\ Pow2(unit.call.n) >= NUM_QUERIES) =>
        LET squeezed == get_random_points(unit.before, NUM_QUERIES)
        IN  /\ unit.result = "ok"
            /\ VLen(unit.out) = NUM_QUERIES
            /\ \A k \in DOMAIN unit.out :
                   /\ unit.out[k] \in 0 .. (Pow2(unit.call.n) - 1)
                   /\ unit.out[k] = squeezed.out[k] % Pow2(unit.call.n)
            /\ unit.ch.round_idx = unit.before.round_idx + NUM_QUERIES

\* The bytes the sponge has absorbed are those of the first n calls of the
\* history that pass the filter counted: the digest of their concatenation
RECURSIVE DigestOfOps(_, _, _)
DigestOfOps(ops, n, counted) ==
    IF n = 0 THEN Keccak_new
    ELSE LET h == DigestOfOps(ops, n - 1, counted)
         IN  IF h >= 0 /\ ops[n].op \in counted
             THEN Keccak_update(h, ops[n].bytes)
             ELSE h

ObserveOps == {"observe_field_elem", "observe_vector_commitment", "packing_factor"}

\* The last call on the channel was get_random_point and it returned
SqueezeReturned ==
    unit.kind = "channel" /\ unit.call.op = "get_random_point" /\ unit.result = "ok"

C17_OverflowReturnsError ==
    (unit.kind = "channel" /\ unit.call.op = "get_random_point"
     /\ unit.before.round_idx = UsizeMax) =>
        /\ unit.result = "error"
        /\ unit.ch.round_idx = UsizeMax

\* C18 (termination): every prove and verify call ends by completing or by
\* returning an error, for eval_point of every length >= TAU, length TAU
\* (rounds = 0) included: neither call aborts, the commit phase makes exactly
\* `rounds` iterations and the query phase opens exactly `rounds` rounds.
C18_CallsComplete ==
    /\ pc = "done" =>
           /\ prover.result \in {"ok", "error"}
           /\ verifier.result \in {"accepted", "error"}
    /\ pc \in {"p_final", "p_query"} =>
           /\ prover.round = Rounds
           /\ VLen(prover.proof_state.sum_check_oracles) = Rounds
    /\ (prover.result = "ok" /\ tamper.kind = "none") =>
           /\ VLen(proof.fri_queried_symbols) = Rounds
           /\ VLen(proof.fri_merkle_paths) = Rounds

\* Channel calls prove makes before commit_phase (prover.rs:79-88): the
\* commitment (two updates), the point, eval, and TAU squeezes
CommitHeader == 2 + VLen(eval_point) + 1 + TAU

AllOps == ObserveOps \cup {"get_random_point"}

\* The five channel calls of commit round k as the prover's history has them
RoundOps(k) == SubSeq(prover.ch.ops, CommitHeader + 5 * k + 1, CommitHeader + 5 * k + 5)

\* ... and as the claim orders them: the three coefficients of the round's
\* polynomial, the squeeze (the TAU + k-th of the run), the commitment
ClaimedRoundOps(k) ==
    LET poly       == prover.proof_state.sum_check_oracles[k]
        commitment == prover.proof_state.fri_oracles[k]
    IN  <<[op |-> "observe_field_elem", bytes |-> FieldBytes(poly.coeffs[0])],
          [op |-> "observe_field_elem", bytes |-> FieldBytes(poly.coeffs[1])],
          [op |-> "observe_field_elem", bytes |-> FieldBytes(poly.coeffs[2])],
          [op |-> "get_random_point", bytes |-> UsizeBytes(TAU + k)],
          [op |-> "observe_vector_commitment",
           bytes |-> HashBytes(commitment.root) \o UsizeBytes(commitment.depth)]>>

\* The MLE and the eq table after k rounds: folded with r_0 .. r_(k-1)
RECURSIVE FoldedInputs(_)
FoldedInputs(k) ==
    IF k = 0
    THEN [mle |-> repack_for_fri(mle),
          eq  |-> row_batch(gen_from_point(Right(eval_point)), prover.batching_eq)]
    ELSE LET before == FoldedInputs(k - 1)
             r      == prover.proof_state.random_challenges[k - 1]
         IN  [mle |-> mle_fold_lo(before.mle, r), eq |-> eq_fold_lo(before.eq, r)]

\* The sum-check claim round k starts with
RoundClaim(k) ==
    IF k = 0
    THEN compute_row_batch(prover.batching_eq.vals, prover.upper_partial_evals)
    ELSE evaluate(prover.proof_state.sum_check_oracles[k - 1],
                  prover.proof_state.random_challenges[k - 1])

\* C19 (prover round order): in every commit round the prover absorbs the
\* round's sum-check polynomial, then squeezes r, then folds the previous
\* code with r and commits to the folded code, then absorbs that commitment;
\* the next round's polynomial comes from the MLE and eq table folded with
\* r; the commit phase ends after exactly `rounds` rounds.
C19_ProverRoundOrder ==
    /\ \A k \in DOMAIN prover.proof_state.sum_check_oracles :
           LET previous == IF k = 0 THEN setup.code
                           ELSE prover.proof_state.fri_folded_codes[k - 1]
               r        == prover.proof_state.random_challenges[k]
               inputs   == FoldedInputs(k)
           IN  /\ k < Rounds
               /\ RoundOps(k) = ClaimedRoundOps(k)
               /\ r = deserialize(Keccak_finalize(
                          DigestOfOps(prover.ch.ops, CommitHeader + 5 * k + 4, AllOps)))
               /\ prover.proof_state.fri_folded_codes[k] = fold_code(previous, r, k)
               /\ prover.proof_state.fri_oracles[k]
                      = commit_oracle(fold_code(previous, r, k)).vector_commitment
               /\ prover.proof_state.sum_check_oracles[k]
                      = sum_check_round(inputs.mle, inputs.eq, RoundClaim(k))
    /\ pc = "p_final" =>
           /\ VLen(prover.proof_state.sum_check_oracles) = Rounds
           /\ Len(prover.ch.ops) = CommitHeader + 5 * Rounds

C19_Witness ==
    /\ pc = "p_final"
    /\ Rounds = MaxRounds
    /\ VLen(prover.proof_state.sum_check_oracles) = MaxRounds
    /\ prover.proof_state.random_challenges[0] # prover.proof_state.random_challenges[1]
    /\ prover.proof_state.sum_check_oracles[1].coeffs[0] # 0
    /\ RoundOps(1) = ClaimedRoundOps(1)

\* The claim verify's round k checks its oracle against: the batched claim
\* of the statement for round 0 (verifier.rs:27-49), the previous oracle at
\* the previous challenge afterwards (verifier.rs:71)
VerifierRoundClaim(k) ==
    IF k = 0
    THEN LET ch1 == observe_fri_commitment(Channel_new, setup.fri_commitment)
             ch2 == observe_field_elems(ch1, eval_point)
             ch3 == observe_field_elem(ch2, eval)
             tensor_batching_point == get_random_points(ch3, TAU)
         IN  compute_row_batch(compute_eq_table(tensor_batching_point.out),
                               proof.upper_partial_evals)
    ELSE evaluate(proof.sum_check_oracles[k - 1], verifier.random_point[k - 1])

\* The channel calls of verify's round k, as far as they have been made
VerifierRoundOps(k) ==
    SubSeq(verifier.ch.ops, CommitHeader + 5 * k + 1,
           IF Len(verifier.ch.ops) < CommitHeader + 5 * k + 5
           THEN Len(verifier.ch.ops) ELSE CommitHeader + 5 * k + 5)

\* ... and the calls the claim orders for round k: oracle, squeeze, commitment
VerifierClaimedOps(k) ==
    LET oracle == proof.sum_check_oracles[k]
    IN  <<[op |-> "observe_field_elem", bytes |-> FieldBytes(oracle.coeffs[0])],
          [op |-> "observe_field_elem", bytes |-> FieldBytes(oracle.coeffs[1])],
          [op |-> "observe_field_elem", bytes |-> FieldBytes(oracle.coeffs[2])],
          [op |-> "get_random_point", bytes |-> UsizeBytes(TAU + k)]>>
        \o (IF k \in DOMAIN proof.fri_oracles
            THEN <<[op |-> "observe_vector_commitment",
                    bytes |-> HashBytes(proof.fri_oracles[k].root)
                                  \o UsizeBytes(proof.fri_oracles[k].depth)]>>
            ELSE << >>)

\* Rounds of verify whose oracle has been absorbed
VerifierRoundsBegun ==
    {k \in 0 .. (Rounds - 1) : Len(verifier.ch.ops) > CommitHeader + 5 * k}

\* The Merkle check of the first query whose fold consistency fails in the
\* round verify stopped in
MerkleOfInconsistentLeaf ==
    LET round == verifier.round
        chosen(i) == IF verifier.current_queries[i] % 2 = 1
                     THEN proof.fri_queried_symbols[round][i][2]
                     ELSE proof.fri_queried_symbols[round][i][1]
        bad == {i \in DOMAIN verifier.current_queries :
                    verifier.folded_symbols[i] # chosen(i)}
        i   == CHOOSE b \in bad : \A c \in bad : b <= c
    IN  verify_merkle_path(proof.fri_oracles[round - 1],
                           hash_tuple(proof.fri_queried_symbols[round][i]),
                           Shr(verifier.current_queries[i], 1),
                           proof.fri_merkle_paths[round][i])

\* C20 (verifier order): each round of verify checks the sum-check relation
\* before it absorbs the oracle and squeezes, and absorbs the round's FRI
\* commitment after the squeeze; the query phase starts after all rounds;
\* for each query the Merkle path of the opened leaf is verified first, then
\* fold consistency, then the fold; verify accepts only when every query
\* passed, Merkle paths included, and the last folds equal the final value.
C20_VerifierOrder ==
    /\ \A k \in VerifierRoundsBegun :
           /\ IsPrefix(VerifierRoundOps(k), VerifierClaimedOps(k))
           /\ FAdd(evaluate(proof.sum_check_oracles[k], 0),
                   evaluate(proof.sum_check_oracles[k], 1)) = VerifierRoundClaim(k)
    /\ (pc \in {"v_query", "v_final"} \/ VLen(verifier.merkle_results) > 0)
           => /\ VLen(verifier.random_point) = Rounds
              /\ Len(verifier.ch.ops) > CommitHeader + 5 * Rounds
    /\ (pc = "done" /\ verifier.failed_check = "fold_consistency")
           => MerkleOfInconsistentLeaf = "Ok"
    /\ (pc = "done" /\ verifier.result = "accepted")
           => /\ ~MerkleFailed
              /\ VLen(verifier.merkle_results) = Rounds
              /\ \A i \in DOMAIN verifier.folded_symbols :
                     verifier.folded_symbols[i] = proof.final_folded_value

\* Number of channel calls up to and including the last round's commitment
RoundsEnd == CommitHeader + 5 * Rounds

\* The tail of a transcript as the claim has it: after the calls of the
\* statement and of `rounds` rounds, each ending with the absorption of
\* commitments[k], the value final is absorbed, then only squeezes follow:
\* none when the domain is small, NUM_QUERIES otherwise, and they are the
\* TAU + rounds-th squeeze onwards
QueryTail(ops, commitments, final) ==
    /\ Len(ops) = RoundsEnd + 1
                  + (IF Pow2(Rounds + LOG_RATE) < NUM_QUERIES THEN 0 ELSE NUM_QUERIES)
    /\ \A k \in 0 .. (Rounds - 1) :
           ops[CommitHeader + 5 * k + 5]
               = [op |-> "observe_vector_commitment",
                  bytes |-> HashBytes(commitments[k].root)
                                \o UsizeBytes(commitments[k].depth)]
    /\ ops[RoundsEnd + 1] = [op |-> "observe_field_elem", bytes |-> FieldBytes(final)]
    /\ \A k \in (RoundsEnd + 2) .. Len(ops) :
           ops[k] = [op |-> "get_random_point",
                     bytes |-> UsizeBytes(TAU + Rounds + (k - RoundsEnd - 2))]

\* Query i as the sponge gives it once the first RoundsEnd + 1 calls and the
\* i earlier query squeezes have been absorbed
QueryOfTranscript(ops, i) ==
    IF Pow2(Rounds + LOG_RATE) < NUM_QUERIES
    THEN Shr(i, 1)
    ELSE Shr(deserialize(Keccak_finalize(DigestOfOps(ops, RoundsEnd + 2 + i, AllOps)))
                 % Pow2(Rounds + LOG_RATE), 1)

\* C21 (queries last): in prove and in verify the query indices are squeezed
\* only after the commitments of all `rounds` folded codes and the final
\* folded value have been absorbed, nothing is absorbed after the query
\* squeeze, and the final value the prover absorbs is entry 0 of the last
\* folded code.
C21_QueriesSqueezedLast ==
    /\ prover.result = "ok" =>
           /\ QueryTail(prover.ch.ops, prover.proof_state.fri_oracles,
                        prover.proof_state.fri_folded_codes[Rounds - 1][0])
           /\ proof.final_folded_value = prover.proof_state.fri_folded_codes[Rounds - 1][0]
               \/ tamper.kind = "final"
           /\ \A i \in DOMAIN prover.queries :
                  prover.queries[i] = QueryOfTranscript(prover.ch.ops, i)
    /\ Len(prover.ch.ops) > RoundsEnd + 1 => prover.result = "ok"
    /\ Len(verifier.ch.ops) > RoundsEnd =>
           /\ QueryTail(verifier.ch.ops, proof.fri_oracles, proof.final_folded_value)
           /\ (pc = "v_query" /\ verifier.round = 0) =>
                  \A i \in DOMAIN verifier.current_queries :
                      verifier.current_queries[i] = QueryOfTranscript(verifier.ch.ops, i)

C21_Witness ==
    /\ pc = "v_query"
    /\ verifier.round = 0
    /\ Rounds = MaxRounds
    /\ Len(prover.ch.ops) = RoundsEnd + 1 + NUM_QUERIES
    /\ Len(verifier.ch.ops) = RoundsEnd + 1 + NUM_QUERIES
    /\ \E i, j \in DOMAIN verifier.current_queries :
           verifier.current_queries[i] # verifier.current_queries[j]
    /\ prover.proof_state.fri_folded_codes[Rounds - 1][0] # 0

\* C22 (tensor batching): in an honest prove the first sum_check_claim,
\* compute_row_batch(batching_eq, upper_partial_evals), is the sum over j of
\* repacked_mle[j] * tensored_eq[j] with repacked_mle = mle.repack_for_fri()
\* and tensored_eq = right_eq.row_batch(batching_eq).
C22_TensorBatching ==
    (unit.kind = "sumcheck" /\ unit.entry = "batched" /\ unit.round = 0) =>
        /\ unit.mle = repack_for_fri(unit.f)
        /\ unit.claim = InnerProduct(unit.mle, unit.eq)

C22_Witness ==
    /\ unit.kind = "sumcheck"
    /\ unit.entry = "batched"
    /\ unit.round = 0
    /\ VLen(unit.mle.coeffs) = Pow2(MaxRounds)
    /\ unit.claim # 0
    /\ unit.claim = InnerProduct(unit.mle, unit.eq)

\* A round of the sum-check has been made
ScRoundMade == unit.kind = "sumcheck" /\ unit.round > 0

\* C23 (sum-check round): when sum_check_claim is the sum of mle[i] * eq[i]
\* at the start of a round, the emitted oracle has evaluate(0) = sum of
\* mle[2i] * eq[2i] and evaluate(1) = sum of mle[2i+1] * eq[2i+1], and
\* evaluate(r) is the sum of fold_lo(mle, r)[i] * fold_lo(eq, r)[i]: the
\* claim is the inner product of the two tables at every round's start and
\* after the last round.
C23_RoundInvariant ==
    /\ (ScRoundMade /\ unit.before.claim = InnerProduct(unit.before.mle, unit.before.eq))
           => /\ evaluate(unit.poly, 0) = HalfProduct(unit.before.mle, unit.before.eq, 0)
              /\ evaluate(unit.poly, 1) = HalfProduct(unit.before.mle, unit.before.eq, 1)
              /\ evaluate(unit.poly, unit.r) = InnerProduct(unit.mle, unit.eq)
              /\ unit.claim = InnerProduct(unit.mle, unit.eq)
    /\ (unit.kind = "sumcheck" /\ unit.entry = "batched")
           => unit.claim = InnerProduct(unit.mle, unit.eq)

C23_Witness ==
    /\ ScRoundMade
    /\ unit.entry = "batched"
    /\ unit.step = "end"
    /\ unit.round = MaxRounds
    /\ unit.r \notin {0, 1}
    /\ unit.before.claim # 0
    /\ unit.claim # 0
    /\ unit.claim = InnerProduct(unit.mle, unit.eq)

\* C30 (oracle fits any claim): sum_check_round(mle, eq, c) returns an oracle
\* with evaluate(0) + evaluate(1) = c for every c, every mle and every eq,
\* values c other than the sum of mle[i] * eq[i] included: the verifier's
\* per-round relation holds on the prover code's oracle whether or not the
\* claim it was given is correct.
C30_OracleFitsClaim ==
    ScRoundMade =>
        /\ unit.poly = sum_check_round(unit.before.mle, unit.before.eq, unit.before.claim)
        /\ FAdd(evaluate(unit.poly, 0), evaluate(unit.poly, 1)) = unit.before.claim

C30_Witness ==
    /\ ScRoundMade
    /\ unit.entry = "given"
    /\ unit.before.claim # InnerProduct(unit.before.mle, unit.before.eq)
    /\ unit.before.claim # 0
    /\ VLen(unit.before.mle.coeffs) = Pow2(MaxRounds)
    /\ evaluate(unit.poly, 1) # HalfProduct(unit.before.mle, unit.before.eq, 1)

\* C24 (fold index convention): for an honest proof, in every round k and
\* for every query with leaf index q in that round, the verifier's
\* fold(r_k, k, q, s0, s1) is entry q of the prover's k-th folded code, which
\* is the symbol (s1 if q is odd, else s0) opened at leaf q >> 1 in round
\* k + 1; both sides use round index k and position q for the twiddle.
C24_FoldIndexConvention ==
    (HonestProof /\ pc \in {"v_query", "v_final"} /\ verifier.round >= 1) =>
        LET k == verifier.round - 1
        IN  \A i \in DOMAIN verifier.current_queries :
                LET q  == verifier.current_queries[i]
                    s  == proof.fri_queried_symbols[k][i]
                IN  /\ q = Shr(prover.queries[i], k)
                    /\ verifier.folded_symbols[i]
                           = fold(prover.proof_state.random_challenges[k], k, q, s[1], s[2])
                    /\ verifier.folded_symbols[i]
                           = prover.proof_state.fri_folded_codes[k][q]
                    /\ k + 1 < Rounds =>
                           /\ proof.fri_queried_symbols[k + 1][i]
                                  = <<prover.proof_state.fri_folded_codes[k][2 * Shr(q, 1)],
                                      prover.proof_state.fri_folded_codes[k][2 * Shr(q, 1) + 1]>>
                           /\ verifier.folded_symbols[i]
                                  = proof.fri_queried_symbols[k + 1][i][(q % 2) + 1]

C24_Witness ==
    /\ HonestProof
    /\ pc = "v_query"
    /\ verifier.round = 1
    /\ Rounds = MaxRounds
    /\ \E i, j \in DOMAIN verifier.current_queries :
           /\ verifier.current_queries[i] % 2 = 1
           /\ verifier.current_queries[j] % 2 = 0
           /\ verifier.current_queries[j] > 0
           /\ verifier.folded_symbols[i] # verifier.folded_symbols[j]
    /\ \E i \in DOMAIN verifier.current_queries :
           proof.fri_queried_symbols[1][i][1] # proof.fri_queried_symbols[1][i][2]

\* The leaves of a tree: its last layer
Leaves(tree) == tree[VLen(tree) - 1]

\* A commitment built for a code and its tree has the depth the claim gives
DepthFits(commitment, code, tree, depth) ==
    /\ commitment.depth = depth
    /\ commitment.depth = Log2(VLen(code)) - 1
    /\ Pow2(commitment.depth) = VLen(Leaves(tree))
    /\ \A leaf_index \in DOMAIN Leaves(tree) :
           VLen(get_merkle_path(tree, leaf_index)) = commitment.depth

\* C25 (commitment depth): every VectorCommitment built by commit or
\* commit_oracle has depth = log2(encoding length) - 1 = log2(leaf count of
\* its tree), the length of every path get_merkle_path returns for the tree:
\* the base commitment has depth rounds + 1, fri_oracles[k] has depth
\* rounds - k, one less each round.
C25_CommitmentDepth ==
    /\ pc # "commit" =>
           DepthFits(setup.fri_commitment.vector_commitment, setup.code,
                     setup.merkle_tree, Rounds + 1)
    /\ pc = "p_absorb" =>
           DepthFits(prover.oracle.vector_commitment, prover.folded_code,
                     prover.oracle.merkle_tree, Rounds - prover.round)
    /\ \A k \in DOMAIN prover.proof_state.fri_oracles :
           /\ DepthFits(prover.proof_state.fri_oracles[k],
                        prover.proof_state.fri_folded_codes[k],
                        prover.proof_state.fri_merkle_trees[k], Rounds - k)
           /\ prover.proof_state.fri_oracles[k].depth + 1
                  = (IF k = 0 THEN setup.fri_commitment.vector_commitment.depth
                     ELSE prover.proof_state.fri_oracles[k - 1].depth)

C25_Witness ==
    /\ pc = "p_final"
    /\ Rounds = MaxRounds
    /\ VLen(prover.proof_state.fri_oracles) = MaxRounds
    /\ setup.fri_commitment.vector_commitment.depth = MaxRounds + 1
    /\ prover.proof_state.fri_oracles[MaxRounds - 1].depth = 1
    /\ VLen(get_merkle_path(setup.merkle_tree, 1)) = MaxRounds + 1

\* The code the next fold of the commit phase takes
CodeToFold ==
    IF prover.round = 0 THEN setup.code
    ELSE prover.proof_state.fri_folded_codes[prover.round - 1]

\* C26 (sizes in the commit phase): at the start of round k (0 <= k < rounds)
\* repacked_mle and tensored_eq have 2^(rounds - k) entries each and the code
\* about to be folded has 2^(rounds + 2 - k) symbols; every fold halves each
\* of the three; after the last round the two tables have one entry each and
\* the last folded code has RATE = 4 symbols.
C26_CommitPhaseSizes ==
    /\ pc \in {"p_emit", "p_challenge", "p_fold", "p_absorb", "p_final"} =>
           /\ VLen(prover.repacked_mle.coeffs) = Pow2(Rounds - prover.round)
           /\ VLen(prover.tensored_eq.vals) = Pow2(Rounds - prover.round)
           /\ VLen(CodeToFold) = Pow2(Rounds + 2 - prover.round)
    /\ pc = "p_emit" => prover.round < Rounds
    /\ pc = "p_absorb" =>
           /\ 2 * VLen(prover.folded_code) = VLen(CodeToFold)
           /\ 2 * VLen(mle_fold_lo(prover.repacked_mle, prover.r).coeffs)
                  = VLen(prover.repacked_mle.coeffs)
    /\ pc = "p_final" =>
           /\ prover.round = Rounds
           /\ VLen(prover.repacked_mle.coeffs) = 1
           /\ VLen(prover.tensored_eq.vals) = 1
           /\ VLen(CodeToFold) = RATE

C26_Witness ==
    /\ pc = "p_final"
    /\ Rounds = MaxRounds
    /\ VLen(setup.code) = Pow2(MaxRounds + 2)
    /\ VLen(prover.proof_state.fri_folded_codes[MaxRounds - 1]) = RATE
    /\ VLen(prover.repacked_mle.coeffs) = 1
    /\ VLen(prover.tensored_eq.vals) = 1

\* The tree and the code the prover opens in query round k
OpenedTree(k) ==
    IF k = 0 THEN setup.merkle_tree ELSE prover.proof_state.fri_merkle_trees[k - 1]

OpenedCode(k) ==
    IF k = 0 THEN setup.code ELSE prover.proof_state.fri_folded_codes[k - 1]

\* C27 (query indices in range): in every query round k (0 <= k < rounds)
\* each leaf index the prover opens, (Q >> 1) >> k for Q returned by
\* gen_queries(rounds + LOG_RATE), is below the leaf count of the tree opened
\* in round k and 2q + 1 is below that code's length: neither the bound
\* assertion of get_merkle_path nor the symbol indexing fails, and the proof
\* holds for each round one (s0, s1) pair and one path per query.
C27_QueriesInRange ==
    /\ (pc = "done" /\ Rounds > 0) => prover.result # "panicked"
    /\ pc = "deliver" =>
           /\ prover.result = "ok"
           /\ VLen(proof.fri_queried_symbols) = Rounds
           /\ VLen(proof.fri_merkle_paths) = Rounds
           /\ \A i \in DOMAIN prover.queries :
                  prover.queries[i] = QueryOfTranscript(prover.ch.ops, i)
           /\ \A k \in 0 .. (Rounds - 1) :
                  /\ VLen(proof.fri_queried_symbols[k]) = VLen(prover.queries)
                  /\ VLen(proof.fri_merkle_paths[k]) = VLen(prover.queries)
                  /\ \A i \in DOMAIN prover.queries :
                         LET q == Shr(prover.queries[i], k)
                         IN  /\ q < VLen(Leaves(OpenedTree(k)))
                             /\ 2 * q + 1 < VLen(OpenedCode(k))
                             /\ proof.fri_queried_symbols[k][i]
                                    = <<OpenedCode(k)[2 * q], OpenedCode(k)[2 * q + 1]>>
                             /\ proof.fri_merkle_paths[k][i]
                                    = get_merkle_path(OpenedTree(k), q)

C27_Witness ==
    /\ pc = "deliver"
    /\ Rounds = MaxRounds
    /\ VLen(prover.queries) = NUM_QUERIES
    /\ \E i \in DOMAIN prover.queries :
           prover.queries[i] = VLen(Leaves(OpenedTree(0))) - 1
    /\ \E i \in DOMAIN prover.queries :
           Shr(prover.queries[i], 1) = VLen(Leaves(OpenedTree(1))) - 1

\* product over i < k of (r[i] if bit i of b is 1, else 1 - r[i])
RECURSIVE EqProduct(_, _, _)
EqProduct(r, b, k) ==
    IF k = 0 THEN 1
    ELSE FMul(EqProduct(r, b, k - 1),
              IF Bit(b, k - 1) = 1 THEN r[k - 1] ELSE FAdd(1, r[k - 1]))

\* C28 (equality tables): for every point r of length k, gen_from_point(r)
\* has 2^k entries and entry b is the product over i of (r_i if bit i of b
\* is 1, else 1 - r_i); the verifier's compute_eq_table(r) returns the same
\* vector for every point.
C28_EqTablesAgree ==
    unit.kind = "eq" =>
        /\ unit.bases.called =>
               /\ unit.bases.result = "ok"
               /\ VLen(unit.bases.out.vals) = Pow2(VLen(unit.r))
               /\ \A b \in DOMAIN unit.bases.out.vals :
                      unit.bases.out.vals[b] = EqProduct(unit.r, b, VLen(unit.r))
        /\ unit.table.called =>
               /\ unit.table.result = "ok"
               /\ unit.table.out = gen_from_point(unit.r).vals

\* C29 (tree shape): merklize aborts unless the number of leaf hashes is a
\* power of two >= 1; for 2^d leaves it returns d + 1 layers, layer j of 2^j
\* nodes, layer 0 the single root, the last layer the leaves as given, and
\* every node of a layer j < d the Keccak digest of its left child followed
\* by its right child in layer j + 1.
C29_TreeShape ==
    unit.kind = "merkle" =>
        LET n == VLen(unit.leaf_hashes)
            d == Log2(n)
        IN  /\ unit.step = "aborted" => \A e \in 0 .. MaxLeafLog : n # Pow2(e)
            /\ unit.step \in {"built", "opened", "verified"} =>
                   /\ n = Pow2(d)
                   /\ VLen(unit.tree) = d + 1
                   /\ \A j \in 0 .. d : VLen(unit.tree[j]) = Pow2(j)
                   /\ unit.tree[d] = unit.leaf_hashes
                   /\ \A j \in 0 .. (d - 1) : \A k \in 0 .. (Pow2(j) - 1) :
                          unit.tree[j][k]
                              = Keccak256(HashBytes(unit.tree[j + 1][2 * k])
                                              \o HashBytes(unit.tree[j + 1][2 * k + 1]))

C29_Witness ==
    /\ unit.kind = "merkle"
    /\ unit.step = "built"
    /\ VLen(unit.leaf_hashes) = Pow2(MaxLeafLog)
    /\ VLen(unit.tree) = MaxLeafLog + 1
    /\ unit.leaf_hashes[0] # unit.leaf_hashes[1]
    /\ unit.tree[1][0] # unit.tree[1][1]

\* The channel after the statement (commitment, eval_point, eval) has been
\* absorbed and TAU points squeezed (prover.rs:79-89, verifier.rs:27-45)
StatementSqueeze ==
    LET ch1 == observe_fri_commitment(Channel_new, setup.fri_commitment)
        ch2 == observe_field_elems(ch1, eval_point)
        ch3 == observe_field_elem(ch2, eval)
    IN  get_random_points(ch3, TAU)

\* Number of calls of observe_field_elem in a channel's history
FieldElemsObserved(ch) ==
    Cardinality({k \in 1 .. Len(ch.ops) : ch.ops[k].op = "observe_field_elem"})

\* C31 (batching point): the tensor_batching_point prove and verify squeeze
\* is a function of (commitment, eval_point, eval) only: runs that agree on
\* these and differ in upper_partial_evals derive the same point, because
\* upper_partial_evals is absorbed neither before nor after that squeeze.
C31_BatchingPointOfStatement ==
    /\ pc \notin {"commit", "prove"} =>
           /\ SubSeq(prover.ch.ops, 1, CommitHeader) = StatementSqueeze.ch.ops
           /\ prover.batching_eq = gen_from_point(StatementSqueeze.out)
           /\ FieldElemsObserved(prover.ch)
                  <= VLen(eval_point) + 1 + 3 * Rounds + 1
    /\ Len(verifier.ch.ops) > 0 =>
           /\ SubSeq(verifier.ch.ops, 1, CommitHeader) = StatementSqueeze.ch.ops
           /\ FieldElemsObserved(verifier.ch)
                  <= VLen(eval_point) + 1 + 3 * Rounds + 1
           /\ pc = "v_check" /\ verifier.round = 0 =>
                  /\ verifier.ch = StatementSqueeze.ch
                  /\ verifier.sum_check_claim
                         = compute_row_batch(compute_eq_table(StatementSqueeze.out),
                                             proof.upper_partial_evals)

C31_Witness ==
    /\ pc = "v_check"
    /\ verifier.round = 0
    /\ mode = "cheat"
    /\ prover.upper_partial_evals
           # get_partial_evals(mle, gen_from_point(Right(eval_point)))
    /\ prover.batching_eq = gen_from_point(StatementSqueeze.out)
    /\ verifier.ch = StatementSqueeze.ch
    /\ \E i \in DOMAIN StatementSqueeze.out : StatementSqueeze.out[i] # 0

\* The proof has the shape verify expects: 2^TAU partial evaluations, one
\* oracle, commitment, symbol vector and path vector per round, and in each
\* round one symbol pair and one path per query
ExactShape ==
    /\ VLen(proof.upper_partial_evals) = Pow2(TAU)
    /\ VLen(proof.sum_check_oracles) = Rounds
    /\ VLen(proof.fri_oracles) = Rounds
    /\ VLen(proof.fri_queried_symbols) = Rounds
    /\ VLen(proof.fri_merkle_paths) = Rounds
    /\ \A round \in 0 .. (Rounds - 1) :
           /\ VLen(proof.fri_queried_symbols[round]) = VLen(verifier.current_queries)
           /\ VLen(proof.fri_merkle_paths[round]) = VLen(verifier.current_queries)

\* C32 (proof shape): verify accepts only proofs of the exact expected shape;
\* a proof with a missing entry is rejected with an error, not an abort, and
\* an accepted proof with extra trailing entries in upper_partial_evals,
\* fri_oracles, fri_queried_symbols or fri_merkle_paths is rejected.
C32_ExactShapeOnly ==
    pc = "done" =>
        /\ verifier.result = "accepted" => ExactShape
        /\ tamper.kind = "drop" => verifier.result = "error"
        /\ tamper.kind = "extend" => verifier.result # "accepted"

\* The two hashes verify_merkle_path concatenates at step d of its walk
WalkPair(d) ==
    LET hash == merkle_walk(unit.leaf_hash, unit.index, unit.path, d)
    IN  IF Bit(unit.index, d) = 0 THEN <<hash, unit.path[d]>> ELSE <<unit.path[d], hash>>

\* The hash is collision-free on the walk: a pair of the walk whose digest
\* is a node of the tree is the pair of that node's children
CollisionFree ==
    \A d \in DOMAIN unit.path :
        \A j \in 0 .. (VLen(unit.tree) - 2) : \A k \in DOMAIN unit.tree[j] :
            hash_concatenation(WalkPair(d)[1], WalkPair(d)[2]) = unit.tree[j][k]
                => WalkPair(d) = <<unit.tree[j + 1][2 * k], unit.tree[j + 1][2 * k + 1]>>

\* C33 (Merkle binding): with a collision-free hash, for a tree merklize
\* built over 2^d leaves and its commitment (root, d),
\* verify_merkle_path(commitment, h, i, path) returns Ok only if i < 2^d, h
\* is leaf i of the tree and path is get_merkle_path(i): an index at or
\* beyond the leaf count is never accepted.
C33_MerkleBinding ==
    (unit.kind = "merkle" /\ unit.step = "checked" /\ unit.result = "Ok"
     /\ CollisionFree) =>
        /\ unit.index < VLen(unit.leaf_hashes)
        /\ unit.leaf_hash = unit.leaf_hashes[unit.index]
        /\ unit.path = get_merkle_path(unit.tree, unit.index)

=============================================================================
